---- MODULE Spec2Model ----
(***************************************************************************)
(* CoinGecko market-data agent: the four operations (price lookup,         *)
(* trending, new listings, token by address) as served by the HTTP routes  *)
(* of coingecko.routes.ts, by the protocol tool dispatch of MCPServer and  *)
(* by the ToolController facade, behind the optional payment middleware    *)
(* that index.ts installs at startup.                                      *)
(*                                                                         *)
(* JavaScript values are records [t |-> type, s |-> string form], so that  *)
(* String(v), template interpolation and URLSearchParams.append are the    *)
(* conversions the code performs and not the identity.                     *)
(***************************************************************************)
EXTENDS Integers, Sequences, FiniteSets, TLC

(***************************************************************************)
(* Bounds of the model.                                                    *)
(***************************************************************************)
\* at most this many optional parameters are supplied in one request
MaxSupplied == 1

(***************************************************************************)
(* JavaScript values.                                                      *)
(***************************************************************************)
Undef == [t |-> "undefined", s |-> "undefined"]
Null == [t |-> "null", s |-> "null"]
Str(x) == [t |-> "string", s |-> x]
Bool(b) == [t |-> "boolean", s |-> IF b THEN "true" ELSE "false"]
Num(x) == [t |-> "number", s |-> x]
EmptyStr == Str("")

\* String(v), `${v}` and the stringification done by URLSearchParams.append
ToStr(v) == v.s

\* JavaScript truthiness, as used by !ids, if (include_market_cap), a || b
Truthy(v) ==
  CASE v.t = "string" -> v.s # ""
    [] v.t = "boolean" -> v.s = "true"
    [] v.t = "number" -> v.s \notin {"0", "NaN"}
    [] OTHER -> FALSE

\* a || null, as in getFacilitatorUrl and getPaymentAddress
OrNull(v) == IF Truthy(v) THEN v ELSE Null

(***************************************************************************)
(* Values the callers supply.                                              *)
(***************************************************************************)
\* what a parsed query string can hold for one key: absent, empty, a string
QueryValues == {Undef, EmptyStr, Str("true"), Str("false")}
\* what a protocol or facade caller can put under one argument key
ArgValues == {Undef, Null, EmptyStr, Str("true"), Bool(TRUE), Bool(FALSE), Num("0")}
\* what the typed signature of a ToolController method admits (strict mode:
\* string, boolean, number, or undefined for an optional argument)
FacadeValues == ArgValues \ {Null}
\* values tried for the required inputs
RequiredQueryValues == {Undef, EmptyStr, Str("bitcoin")}
RequiredArgValues == {Undef, Null, EmptyStr, Str("bitcoin")}
RequiredFacadeValues == {EmptyStr, Str("bitcoin")}

Operations == {"get_simple_price", "get_trending_coins", "get_new_coins", "get_token_price_by_address"}
Surfaces == {"http", "tool", "facade", "callTool", "resource", "discovery", "prompt"}

\* a tool name that is not a case of the dispatch switches
UnknownTool == "get_coin_history"
ToolNames == Operations \cup {UnknownTool}

\* the cases of the read-resource switch, and a URI that is not one of them
MarketStatusUri == "coingecko://market/status"
TrendingCoinsUri == "coingecko://trending/coins"
NewCoinsUri == "coingecko://new/coins"
ApiInfoUri == "coingecko://api/info"
ResourceUris == {MarketStatusUri, TrendingCoinsUri, NewCoinsUri, ApiInfoUri}
UnknownUri == "coingecko://coins/markets"

PriceRequired == {"ids", "vs_currencies"}
PriceOptional == {"include_market_cap", "include_24hr_vol", "include_24hr_change",
                  "include_last_updated_at", "precision"}
TokenRequired == {"chainId", "tokenAddress"}
TokenOptional == {"localization", "tickers", "market_data", "community_data",
                  "developer_data", "sparkline"}

RequiredKeys(op) ==
  CASE op = "get_simple_price" -> PriceRequired
    [] op = "get_token_price_by_address" -> TokenRequired
    [] OTHER -> {}

OptionalKeys(op) ==
  CASE op = "get_simple_price" -> PriceOptional
    [] op = "get_token_price_by_address" -> TokenOptional
    [] OTHER -> {}

ArgKeys(op) == RequiredKeys(op) \cup OptionalKeys(op)


(***************************************************************************)
(* Parameter maps.  A map is a function from the keys it holds to values.  *)
(***************************************************************************)
EmptyMap == [k \in {} |-> Undef]

\* { ...a, ...b }: b's entries win
Merge(a, b) ==
  [k \in DOMAIN a \cup DOMAIN b |-> IF k \in DOMAIN b THEN b[k] ELSE a[k]]

\* reading a key of an object: undefined when the key is not there
Get(obj, k) == IF k \in DOMAIN obj THEN obj[k] ELSE Undef

\* JSON.stringify of an object, as done by res.json and by the tool handlers:
\* a key whose value is undefined is dropped, null is kept
JsonStringify(obj) ==
  [k \in {j \in DOMAIN obj : obj[j] # Undef} |-> obj[k]]

(***************************************************************************)
(* The upstream client.                                                    *)
(***************************************************************************)
NoParams == [absent |-> TRUE]
HasParams(p) == p # NoParams

\* the query string callCoinGeckoAPI builds: an entry is appended unless its
\* value is undefined, null or '', and URLSearchParams stores its string form
UpstreamQuery(params) ==
  IF ~HasParams(params) THEN [k \in {} |-> ""]
  ELSE [k \in {j \in DOMAIN params :
                 params[j] # Undef /\ params[j] # Null /\ params[j] # EmptyStr}
          |-> ToStr(params[k])]

\* segment texts that hold a '?', with the text before it and the text after
QueryMarked == {"0xABC?x=1"}
BeforeMark(seg) == IF seg = "0xABC?x=1" THEN "0xABC" ELSE seg
AfterMark(seg) == IF seg = "0xABC?x=1" THEN "x=1" ELSE ""

\* new URL(base + endpoint): the endpoint is inserted as text, so the path of
\* the URL ends at the first '?' and what follows it is the URL's search
ParseUrl(endpoint) ==
  LET marked == {i \in 1..Len(endpoint) : endpoint[i] \in QueryMarked}
  IN IF marked = {}
       THEN [path |-> endpoint, search |-> <<>>]
       ELSE LET i == CHOOSE j \in marked : \A k \in marked : j <= k
            IN [path |-> SubSeq(endpoint, 1, i - 1) \o <<BeforeMark(endpoint[i])>>,
                search |-> <<AfterMark(endpoint[i])>>
                             \o SubSeq(endpoint, i + 1, Len(endpoint))]

\* the outbound request of callCoinGeckoAPI(endpoint, params): the parsed
\* URL, and the entries appended to its searchParams
UpstreamRequest(endpoint, params) ==
  [path |-> ParseUrl(endpoint).path, search |-> ParseUrl(endpoint).search,
   query |-> UpstreamQuery(params)]

\* what fetch() can settle with: a response with a JSON body, a 2xx response
\* whose body is not JSON, or a rejection (DNS, connection refused)
\* The JSON bodies of the model: D1 is an object whose coins list holds three
\* entries, D0 an object whose coins list is empty, D2 an object without a
\* coins list, and NullBody the JSON text null.
UpstreamStatuses == {200, 404, 500}
NullBody == "null"
UpstreamBodies == {"D1", "D2", "D0", NullBody}
UpstreamOutcomes ==
  {[kind |-> "json", status |-> 200, body |-> b] : b \in UpstreamBodies}
    \cup {[kind |-> "notjson", status |-> 200, body |-> "text"]}
    \cup {[kind |-> "json", status |-> s, body |-> "D1"] : s \in UpstreamStatuses \ {200}}
    \cup {[kind |-> "transport", status |-> 0, body |-> "none"]}

\* response.ok
ResponseOk(u) == u.kind # "transport" /\ u.status >= 200 /\ u.status <= 299

Msg(text, status) == [text |-> text, status |-> status]

\* callCoinGeckoAPI after fetch settled: the parsed body, or the error thrown
\* (fetch rejects on a transport failure, !response.ok throws the message
\* holding the status, response.json() rejects on a body that is not JSON)
CallResult(u) ==
  IF u.kind = "transport"
    THEN [ok |-> FALSE, data |-> "none", message |-> Msg("fetch failed", 0)]
  ELSE IF ~ResponseOk(u)
    THEN [ok |-> FALSE, data |-> "none", message |-> Msg("CoinGecko API error", u.status)]
  ELSE IF u.kind = "notjson"
    THEN [ok |-> FALSE, data |-> "none", message |-> Msg("Unexpected token", 0)]
  ELSE [ok |-> TRUE, data |-> u.body, message |-> Msg("none", 0)]

(***************************************************************************)
(* The operation handlers: validation, parameter maps, envelopes.          *)
(***************************************************************************)
NoArgs == [noargs |-> TRUE]

\* variant: && in place of ||
HttpPriceInvalidBoth(q) == ~Truthy(Get(q, "ids")) /\ ~Truthy(Get(q, "vs_currencies"))

\* if (!ids || !vs_currencies) of the HTTP price route
HttpPriceInvalid(q) == ~Truthy(Get(q, "ids")) \/ ~Truthy(Get(q, "vs_currencies"))

\* if (!chainId || !tokenAddress) of the HTTP token route
HttpTokenInvalid(ids) == ~Truthy(ids.chainId) \/ ~Truthy(ids.tokenAddress)

\* params of the HTTP price route: the two required entries, and each
\* optional entry whose query value is truthy
HttpPriceParams(q) ==
  [k \in PriceRequired \cup {j \in PriceOptional : Truthy(Get(q, j))} |-> Get(q, k)]

\* params of handleGetSimplePrice: the two required entries as given, and
\* String(v) of each optional argument that is not undefined
ToolPriceParams(a) ==
  [k \in PriceRequired \cup {j \in PriceOptional : Get(a, j) # Undef} |->
     IF k \in PriceRequired THEN Get(a, k) ELSE Str(ToStr(Get(a, k)))]

\* params of the token route and of handleGetTokenPriceByAddress: each
\* optional entry that is not undefined, as given
TokenParams(a) ==
  [k \in {j \in TokenOptional : Get(a, j) # Undef} |-> Get(a, k)]

\* Object.keys(params).length > 0 ? params : undefined
TokenCallParams(params) == IF DOMAIN params # {} THEN params ELSE NoParams

\* `/coins/${chainId}/contract/${tokenAddress}`
TokenEndpoint(chainId, tokenAddress) ==
  <<"coins", ToStr(chainId), "contract", ToStr(tokenAddress)>>

Endpoint(op) ==
  CASE op = "get_simple_price" -> <<"simple", "price">>
    [] op = "get_trending_coins" -> <<"search", "trending">>
    [] op = "get_new_coins" -> <<"coins", "list", "new">>

ErrorCategory(op) ==
  CASE op = "get_simple_price" -> "Failed to fetch price data"
    [] op = "get_trending_coins" -> "Failed to fetch trending coins"
    [] op = "get_new_coins" -> "Failed to fetch new coins"
    [] op = "get_token_price_by_address" -> "Failed to fetch token data"

SuccessMessage(op) ==
  IF op = "get_trending_coins" THEN Msg("Trending coins fetched successfully", 0)
  ELSE Msg("Newly listed coins fetched successfully", 0)

\* variant: the envelope holds the data's own data field, which a body
\* without one does not have
SuccessEnvelopeUnwrapped(op, data, echo) ==
  IF op \in {"get_simple_price", "get_token_price_by_address"}
    THEN [success |-> TRUE, data |-> "none", parameters |-> JsonStringify(echo)]
    ELSE [success |-> TRUE, data |-> "none", message |-> SuccessMessage(op)]

\* { success: true, data, parameters } or { success: true, data, message }
SuccessEnvelope(op, data, echo) ==
  IF op \in {"get_simple_price", "get_token_price_by_address"}
    THEN [success |-> TRUE, data |-> data, parameters |-> JsonStringify(echo)]
    ELSE [success |-> TRUE, data |-> data, message |-> SuccessMessage(op)]

\* { error, message }
FailureEnvelope(op, message) == [error |-> ErrorCategory(op), message |-> message]

\* res.status(400).json(...) of the two routes that validate
BadRequest(op) ==
  IF op = "get_simple_price"
    THEN [shape |-> "http", status |-> 400,
          body |-> [error |-> "Missing required parameters",
                    required |-> <<"ids", "vs_currencies">>,
                    message |-> Msg("Both 'ids' and 'vs_currencies' are required parameters", 0)]]
    ELSE [shape |-> "http", status |-> 400,
          body |-> [error |-> "Missing required path parameters",
                    required |-> <<"chainId", "tokenAddress">>,
                    message |-> Msg("Both 'chainId' and 'tokenAddress' are required in the URL path", 0)]]

\* variant: the 500 body also holds the error's stack
HttpRespondWithStack(op, echo, result) ==
  IF result.ok
    THEN [shape |-> "http", status |-> 200, body |-> SuccessEnvelope(op, result.data, echo)]
    ELSE [shape |-> "http", status |-> 500,
          body |-> [error |-> ErrorCategory(op), message |-> result.message,
                    stack |-> "Error: at callCoinGeckoAPI"]]

\* res.json(envelope) after the call, or the catch block's res.status(500)
HttpRespond(op, echo, result) ==
  IF result.ok
    THEN [shape |-> "http", status |-> 200, body |-> SuccessEnvelope(op, result.data, echo)]
    ELSE [shape |-> "http", status |-> 500, body |-> FailureEnvelope(op, result.message)]

\* variant: the arguments received are handed on as the query
BareCallForwarding(op, args) ==
  UpstreamRequest(Endpoint(op), IF args = NoArgs THEN NoParams ELSE args)

\* the call of the trending and the new-listings handlers: the fixed path
\* and no params, whatever the handler received
BareCall(op, args) == UpstreamRequest(Endpoint(op), NoParams)

\* { content: [{ type: "text", text: JSON.stringify(envelope) }] }
ToolRespond(op, echo, result) ==
  IF result.ok
    THEN [shape |-> "content", status |-> 0, body |-> SuccessEnvelope(op, result.data, echo)]
    ELSE [shape |-> "content", status |-> 0, body |-> FailureEnvelope(op, result.message)]

(***************************************************************************)
(* Startup (index.ts): payment configuration and the middleware stack.     *)
(***************************************************************************)
\* what process.env can hold for FACILITATOR_URL and ADDRESS
EnvValues == {Undef, EmptyStr, Str("set")}

\* getFacilitatorUrl(), getPaymentAddress(): process.env.X || null
getFacilitatorUrl(e) == OrNull(e.FACILITATOR_URL)
getPaymentAddress(e) == OrNull(e.ADDRESS)

\* isPaymentConfigured(): !!(getFacilitatorUrl() && getPaymentAddress())
isPaymentConfigured(e) == Truthy(getFacilitatorUrl(e)) /\ Truthy(getPaymentAddress(e))

\* variant: the keys of the route table written as the routers' own
\* patterns, without the mount
PaymentRouteKeysUnmounted ==
  { [verb |-> "GET", path |-> <<"simple", "price">>],
    [verb |-> "GET", path |-> <<"search", "trending">>],
    [verb |-> "GET", path |-> <<"coins", "list", "new">>],
    [verb |-> "GET", path |-> <<"coins", ":chainId", "contract", ":tokenAddress">>],
    [verb |-> "GET", path |-> <<>>] }

\* the route table handed to paymentMiddleware
PaymentRouteKeys ==
  { [verb |-> "GET", path |-> <<"mcp", "simple", "price">>],
    [verb |-> "GET", path |-> <<"mcp", "search", "trending">>],
    [verb |-> "GET", path |-> <<"mcp", "coins", "list", "new">>],
    [verb |-> "GET", path |-> <<"mcp", "coins", ":chainId", "contract", ":tokenAddress">>],
    [verb |-> "GET", path |-> <<"mcp">>] }

\* app.use("/mcp", coingeckoRoutes)
CoingeckoMount == <<"mcp">>

\* variants of the registration: the routers registered first, the payment
\* middleware registered when either value is set, and registered always
BuildStackRoutesFirst(fu, pt) ==
  IF Truthy(fu) /\ Truthy(pt)
    THEN <<"healthRoutes", "coingeckoRoutes", "paymentMiddleware">>
    ELSE <<"healthRoutes", "coingeckoRoutes">>

BuildStackEither(fu, pt) ==
  IF Truthy(fu) \/ Truthy(pt)
    THEN <<"paymentMiddleware", "healthRoutes", "coingeckoRoutes">>
    ELSE <<"healthRoutes", "coingeckoRoutes">>

BuildStackAlways(fu, pt) == <<"paymentMiddleware", "healthRoutes", "coingeckoRoutes">>

\* the app.use calls in registration order: the payment middleware is
\* registered, when facilitatorUrl && payTo, before the routers; healthRoutes
\* is mounted at "/" and coingeckoRoutes at "/mcp" (mcpRoutes, mounted at
\* "/mcp" between the two, serves the protocol endpoints and none of the
\* paths of the model)
BuildStack(fu, pt) ==
  IF Truthy(fu) /\ Truthy(pt)
    THEN <<"paymentMiddleware", "healthRoutes", "coingeckoRoutes">>
    ELSE <<"healthRoutes", "coingeckoRoutes">>

(***************************************************************************)
(* Route patterns and their matching.                                      *)
(***************************************************************************)
\* router.get(pattern, handler) of the four operations
RoutePattern(op) ==
  CASE op = "get_simple_price" -> <<"simple", "price">>
    [] op = "get_trending_coins" -> <<"search", "trending">>
    [] op = "get_new_coins" -> <<"coins", "list", "new">>
    [] op = "get_token_price_by_address" -> <<"coins", ":chainId", "contract", ":tokenAddress">>

IsParamSegment(seg) == seg \in {":chainId", ":tokenAddress"}

\* a pattern matches a path of the same length whose segments are equal to
\* the pattern's, a parameter segment matching any segment that is not empty
MatchPattern(pattern, path) ==
  /\ Len(pattern) = Len(path)
  /\ \A i \in 1..Len(pattern) :
       IF IsParamSegment(pattern[i]) THEN path[i] # "" ELSE pattern[i] = path[i]

\* the route table entry the payment middleware finds for a request.  The
\* lookup is done inside the x402-express library; a key is taken to match a
\* path as the router's pattern of the same text does
PaymentRouteMatches(verb, path) ==
  \E key \in PaymentRouteKeys : key.verb = verb /\ MatchPattern(key.path, path)

\* the path a router mounted at `mount` sees, or <<"nomatch">>
StripMount(mount, path) ==
  IF Len(path) >= Len(mount) /\ SubSeq(path, 1, Len(mount)) = mount
    THEN SubSeq(path, Len(mount) + 1, Len(path))
    ELSE <<"nomatch">>

\* the operation whose route of coingeckoRoutes serves the path, or "none"
RoutedOperation(path) ==
  LET rest == StripMount(CoingeckoMount, path)
      hits == {op \in Operations : MatchPattern(RoutePattern(op), rest)}
  IN IF hits = {} THEN "none" ELSE CHOOSE op \in hits : TRUE

\* the paths of healthRoutes: GET /, GET /health, GET /info
HealthPaths == {<<>>, <<"health">>, <<"info">>}

\* req.params of the token route
PathIds(path) ==
  LET rest == StripMount(CoingeckoMount, path)
  IN [chainId |-> Str(rest[2]), tokenAddress |-> Str(rest[4])]

(***************************************************************************)
(* Discovery: the lists of tools, prompts and resources, each declared in  *)
(* the list-* request handler and again in the get* method of MCPServer.   *)
(***************************************************************************)
\* the cases of the get-prompt switch
PromptNames == {"crypto_price_check", "market_analysis", "token_research"}

\* tools of the list-tools request handler: name, inputSchema.properties,
\* inputSchema.required
ListToolsDeclared ==
  << [name |-> "get_simple_price",
      properties |-> {"ids", "vs_currencies", "include_market_cap", "include_24hr_vol",
                      "include_24hr_change", "include_last_updated_at", "precision"},
      required |-> <<"ids", "vs_currencies">>],
     [name |-> "get_trending_coins", properties |-> {}, required |-> <<>>],
     [name |-> "get_new_coins", properties |-> {}, required |-> <<>>],
     [name |-> "get_token_price_by_address",
      properties |-> {"chainId", "tokenAddress", "localization", "tickers", "market_data",
                      "community_data", "developer_data", "sparkline"},
      required |-> <<"chainId", "tokenAddress">>] >>

\* variant: getTools() was not given the tool added last
GetToolsDeclaredShort ==
  << [name |-> "get_simple_price",
      properties |-> {"ids", "vs_currencies", "include_market_cap", "include_24hr_vol",
                      "include_24hr_change", "include_last_updated_at", "precision"},
      required |-> <<"ids", "vs_currencies">>],
     [name |-> "get_trending_coins", properties |-> {}, required |-> <<>>],
     [name |-> "get_new_coins", properties |-> {}, required |-> <<>>] >>

\* tools of getTools()
GetToolsDeclared ==
  << [name |-> "get_simple_price",
      properties |-> {"ids", "vs_currencies", "include_market_cap", "include_24hr_vol",
                      "include_24hr_change", "include_last_updated_at", "precision"},
      required |-> <<"ids", "vs_currencies">>],
     [name |-> "get_trending_coins", properties |-> {}, required |-> <<>>],
     [name |-> "get_new_coins", properties |-> {}, required |-> <<>>],
     [name |-> "get_token_price_by_address",
      properties |-> {"chainId", "tokenAddress", "localization", "tickers", "market_data",
                      "community_data", "developer_data", "sparkline"},
      required |-> <<"chainId", "tokenAddress">>] >>

\* prompts of the list-prompts request handler: name, and the arguments
\* with their required flags
ListPromptsDeclared ==
  << [name |-> "crypto_price_check",
      arguments |-> <<[name |-> "tokens", required |-> TRUE],
                      [name |-> "currencies", required |-> FALSE]>>],
     [name |-> "market_analysis", arguments |-> <<>>],
     [name |-> "token_research",
      arguments |-> <<[name |-> "chain", required |-> TRUE],
                      [name |-> "address", required |-> TRUE]>>] >>

\* prompts of getPrompts()
GetPromptsDeclared ==
  << [name |-> "crypto_price_check",
      arguments |-> <<[name |-> "tokens", required |-> TRUE],
                      [name |-> "currencies", required |-> FALSE]>>],
     [name |-> "market_analysis", arguments |-> <<>>],
     [name |-> "token_research",
      arguments |-> <<[name |-> "chain", required |-> TRUE],
                      [name |-> "address", required |-> TRUE]>>] >>

\* resources of the list-resources request handler: uri (its name in the
\* read-resource switch), name, mimeType
ListResourcesDeclared ==
  << [name |-> "coingecko://market/status", title |-> "Market Status",
      mimeType |-> "application/json"],
     [name |-> "coingecko://trending/coins", title |-> "Trending Coins",
      mimeType |-> "application/json"],
     [name |-> "coingecko://new/coins", title |-> "New Listings",
      mimeType |-> "application/json"],
     [name |-> "coingecko://api/info", title |-> "API Information",
      mimeType |-> "text/plain"] >>

\* resources of getResources()
GetResourcesDeclared ==
  << [name |-> "coingecko://market/status", title |-> "Market Status",
      mimeType |-> "application/json"],
     [name |-> "coingecko://trending/coins", title |-> "Trending Coins",
      mimeType |-> "application/json"],
     [name |-> "coingecko://new/coins", title |-> "New Listings",
      mimeType |-> "application/json"],
     [name |-> "coingecko://api/info", title |-> "API Information",
      mimeType |-> "text/plain"] >>

\* the discovery calls and the list each returns
DiscoveryCalls ==
  {"tools/list", "getTools", "prompts/list", "getPrompts", "resources/list", "getResources"}

Declared(call) ==
  CASE call = "tools/list" -> ListToolsDeclared
    [] call = "getTools" -> GetToolsDeclared
    [] call = "prompts/list" -> ListPromptsDeclared
    [] call = "getPrompts" -> GetPromptsDeclared
    [] call = "resources/list" -> ListResourcesDeclared
    [] call = "getResources" -> GetResourcesDeclared

(***************************************************************************)
(* State.                                                                  *)
(***************************************************************************)
VARIABLES
  env,             \* process.env: FACILITATOR_URL and ADDRESS
  facilitatorUrl,  \* const facilitatorUrl of index.ts
  payTo,           \* const payTo of index.ts
  stack,           \* the app's middleware, in registration order
  req              \* the requests: one record per request slot

vars == <<env, facilitatorUrl, payTo, stack, req>>

\* the request slots served one at a time
Slots == {"r1"}

NoResp == [shape |-> "none", status |-> 0, body |-> EmptyMap]
NoOutcome == [kind |-> "none", status |-> 0, body |-> "none"]

IdleReq ==
  [pc |-> "idle", surface |-> "none", name |-> "none", op |-> "none",
   path |-> <<>>, given |-> EmptyMap, args |-> EmptyMap, stage |-> 0, gate |-> "none",
   handled |-> FALSE, echo |-> EmptyMap, calls |-> <<>>, settled |-> <<>>,
   hung |-> FALSE,
   upstream |-> NoOutcome, resp |-> NoResp, sent |-> 0]

Init ==
  /\ env \in [FACILITATOR_URL : EnvValues, ADDRESS : EnvValues]
  /\ facilitatorUrl = getFacilitatorUrl(env)
  /\ payTo = getPaymentAddress(env)
  /\ stack = BuildStack(facilitatorUrl, payTo)
  /\ req = [r \in Slots |-> IdleReq]

(***************************************************************************)
(* Inputs.                                                                 *)
(***************************************************************************)
\* the maps that supply at most MaxSupplied of the keys, each with a value
Supplies(keys, values) ==
  UNION {[S -> values \ {Undef}] : S \in {T \in SUBSET keys : Cardinality(T) <= MaxSupplied}}

\* variant: the method passes String(v) of each optional argument
FacadeArgsStringified(op, a) ==
  [k \in ArgKeys(op) |->
     IF k \in OptionalKeys(op) THEN Str(ToStr(Get(a, k))) ELSE Get(a, k)]

\* the object literal of a ToolController method: every key, undefined when
\* the caller left the argument out
FacadeArgs(op, a) == [k \in ArgKeys(op) |-> Get(a, k)]

\* a token address that holds a '?'
MarkedAddress == Str("0xABC?x=1")

\* the required arguments of a call: each key with one of the values, and
\* for the token address the marked address too
RequiredInputs(op, values) ==
  IF op = "get_token_price_by_address"
    THEN {[chainId |-> c, tokenAddress |-> a] :
            c \in values, a \in values \cup {MarkedAddress}}
    ELSE [RequiredKeys(op) -> values]

\* the optional inputs of a request: for price lookup and token by address
\* some of the optional keys, for trending and new listings, which declare
\* no input, nothing or an entry the caller adds all the same
OptionalInputs(op, values) ==
  IF op \in {"get_trending_coins", "get_new_coins"}
    THEN {EmptyMap, [ids |-> Str("bitcoin")]}
    ELSE Supplies(OptionalKeys(op), values)

\* the URL segments of a request for an operation under a mount
UrlSegments(mount, op, cid, addr) ==
  IF op = "get_token_price_by_address"
    THEN <<mount, "coins", cid, "contract", addr>>
    ELSE <<mount>> \o RoutePattern(op)

(***************************************************************************)
(* Requests arrive.                                                        *)
(***************************************************************************)
\* an HTTP GET request: its path and its parsed query string
ReceiveHttp(r) ==
  /\ req[r].pc = "idle"
  /\ \E op \in Operations, mount \in {"mcp", "coingecko"},
        cid \in {"", "ethereum"}, addr \in {"", "0xABC", "0xABC?x=1"} :
       \E reqd \in [RequiredKeys(op) \cap PriceRequired -> RequiredQueryValues],
          opt \in OptionalInputs(op, QueryValues) :
         /\ op # "get_token_price_by_address" => (cid = "ethereum" /\ addr = "0xABC")
         /\ req' = [req EXCEPT ![r] =
                      [@ EXCEPT !.pc = "pipeline", !.surface = "http",
                                !.path = UrlSegments(mount, op, cid, addr),
                                !.args = Merge(reqd, opt), !.stage = 1]]
  /\ UNCHANGED <<env, facilitatorUrl, payTo, stack>>

\* an HTTP GET request for an informational endpoint
ReceiveInfo(r) ==
  /\ req[r].pc = "idle"
  /\ \E path \in HealthPaths :
       req' = [req EXCEPT ![r] =
                 [@ EXCEPT !.pc = "pipeline", !.surface = "http", !.path = path,
                           !.stage = 1]]
  /\ UNCHANGED <<env, facilitatorUrl, payTo, stack>>

\* a protocol list-tools, list-prompts or list-resources request, or a
\* call of getTools(), getPrompts() or getResources()
ReceiveDiscovery(r) ==
  /\ req[r].pc = "idle"
  /\ \E call \in DiscoveryCalls :
       req' = [req EXCEPT ![r] =
                 [@ EXCEPT !.pc = "dispatch", !.surface = "discovery", !.name = call]]
  /\ UNCHANGED <<env, facilitatorUrl, payTo, stack>>

\* a protocol call-tool request: a tool name and its arguments, if any
ReceiveTool(r) ==
  /\ req[r].pc = "idle"
  /\ \E op \in ToolNames :
       \E a \in {NoArgs} \cup
                {Merge(reqd, opt) : reqd \in RequiredInputs(op, RequiredArgValues),
                                    opt \in OptionalInputs(op, ArgValues)} :
         req' = [req EXCEPT ![r] =
                   [@ EXCEPT !.pc = "dispatch", !.surface = "tool", !.name = op, !.args = a]]
  /\ UNCHANGED <<env, facilitatorUrl, payTo, stack>>

\* a ToolController method is called with the arguments given, and calls
\* callTool with its object literal
ReceiveFacade(r) ==
  /\ req[r].pc = "idle"
  /\ \E op \in Operations :
       \E reqd \in RequiredInputs(op, RequiredFacadeValues),
          opt \in Supplies(OptionalKeys(op), FacadeValues) :
         req' = [req EXCEPT ![r] =
                   [@ EXCEPT !.pc = "dispatch", !.surface = "facade", !.name = op,
                             !.given = Merge(reqd, opt),
                             !.args = FacadeArgs(op, Merge(reqd, opt))]]
  /\ UNCHANGED <<env, facilitatorUrl, payTo, stack>>

\* MCPServer.callTool(name, args) is called by code other than the facade:
\* any name, and arguments that hold the required keys only, if any
ReceiveCallTool(r) ==
  /\ req[r].pc = "idle"
  /\ \E name \in ToolNames :
       \E a \in {NoArgs} \cup RequiredInputs(name, RequiredArgValues) :
         req' = [req EXCEPT ![r] =
                   [@ EXCEPT !.pc = "dispatch", !.surface = "callTool", !.name = name,
                             !.args = a]]
  /\ UNCHANGED <<env, facilitatorUrl, payTo, stack>>

\* a protocol read-resource request: a URI
ReceiveResource(r) ==
  /\ req[r].pc = "idle"
  /\ \E uri \in ResourceUris \cup {UnknownUri} :
       req' = [req EXCEPT ![r] =
                 [@ EXCEPT !.pc = "dispatch", !.surface = "resource", !.name = uri]]
  /\ UNCHANGED <<env, facilitatorUrl, payTo, stack>>

(***************************************************************************)
(* The HTTP pipeline: payment middleware, then the router.                 *)
(***************************************************************************)
AtStage(r, name) ==
  /\ req[r].pc = "pipeline"
  /\ req[r].stage <= Len(stack)
  /\ stack[req[r].stage] = name

\* the 402 answer of the payment middleware (its body is the library's)
PaymentRequired == [shape |-> "http", status |-> 402, body |-> EmptyMap]

\* the payment middleware: a request whose verb and path are in the route
\* table goes on only when its payment settles; any other request goes on
PaymentMiddleware(r) ==
  /\ AtStage(r, "paymentMiddleware")
  /\ IF PaymentRouteMatches("GET", req[r].path)
       THEN \E settled \in BOOLEAN :
              req' = [req EXCEPT ![r] =
                        IF settled
                          THEN [@ EXCEPT !.gate = "passed", !.stage = @ + 1]
                          ELSE [@ EXCEPT !.gate = "rejected", !.pc = "done",
                                         !.resp = PaymentRequired,
                                         !.sent = @ + 1]]
       ELSE req' = [req EXCEPT ![r] = [@ EXCEPT !.stage = @ + 1]]
  /\ UNCHANGED <<env, facilitatorUrl, payTo, stack>>

\* a handler issues its outbound call and suspends at await fetch(...)
Suspend(rq, op, echo, call) ==
  [rq EXCEPT !.pc = "awaiting", !.op = op, !.handled = TRUE, !.echo = echo,
             !.calls = Append(@, call)]

\* a handler answers without an outbound call
Answer(rq, op, resp) ==
  [rq EXCEPT !.pc = "done", !.op = op, !.handled = TRUE, !.resp = resp]

\* variant: the 400 is sent without `return`, and the handler goes on to
\* build its params and to issue its call
HttpRejectFallsThrough(rq, op, echo, call) ==
  Suspend([rq EXCEPT !.resp = BadRequest(op), !.sent = @ + 1], op, echo, call)

\* return res.status(400).json(...): the response is sent and the rest of
\* the handler, its params and its call, is not run
HttpReject(rq, op, echo, call) ==
  [Answer(rq, op, BadRequest(op)) EXCEPT !.sent = @ + 1]

(***************************************************************************)
(* healthRoutes: the informational endpoints.                              *)
(***************************************************************************)
\* the tool endpoints GET / advertises, as path segments
AdvertisedEndpoints ==
  [get_simple_price |-> <<"coingecko", "simple", "price">>,
   get_trending_coins |-> <<"coingecko", "search", "trending">>,
   get_new_coins |-> <<"coingecko", "coins", "list", "new">>,
   get_token_price_by_address |->
     <<"coingecko", "coins", ":chainId", "contract", ":tokenAddress">>]

\* the example paths of GET /, as path segments (their query strings are
\* the examples' inputs)
AdvertisedExamples ==
  [get_simple_price |-> <<"coingecko", "simple", "price">>,
   get_trending_coins |-> <<"coingecko", "search", "trending">>,
   get_new_coins |-> <<"coingecko", "coins", "list", "new">>,
   get_token_price_by_address |->
     <<"coingecko", "coins", "ethereum", "contract", "0x...">>]

\* capabilities of GET /
Capabilities ==
  [tools |-> <<"get_simple_price", "get_trending_coins", "get_new_coins",
               "get_token_price_by_address">>,
   prompts |-> <<"crypto_price_check", "market_analysis", "token_research">>,
   resources |-> <<"coingecko://market/status", "coingecko://trending/coins",
                   "coingecko://new/coins", "coingecko://api/info">>]

\* the pricing block: the prices of PAYMENT_CONFIG, or null
Pricing(configured) ==
  IF configured
    THEN [isNull |-> FALSE,
          keys |-> {"get_simple_price", "get_trending_coins", "get_new_coins",
                    "get_token_price_by_address", "jsonRpc"}]
    ELSE [isNull |-> TRUE, keys |-> {}]

\* variant: the flag follows the facilitator URL alone
RootBodyUrlOnly(e) ==
  [paymentEnabled |-> Truthy(getFacilitatorUrl(e)),
   pricing |-> Pricing(Truthy(getFacilitatorUrl(e))),
   endpoints |-> AdvertisedEndpoints, examples |-> AdvertisedExamples,
   capabilities |-> Capabilities]

\* the body of GET /: isPaymentConfigured() is evaluated when the request
\* is served
RootBody(e) ==
  [paymentEnabled |-> isPaymentConfigured(e),
   pricing |-> Pricing(isPaymentConfigured(e)),
   endpoints |-> AdvertisedEndpoints, examples |-> AdvertisedExamples,
   capabilities |-> Capabilities]

\* the body of GET /info
InfoBody(e) ==
  [paymentEnabled |-> isPaymentConfigured(e),
   paymentNetwork |-> IF isPaymentConfigured(e) THEN "base-sepolia" ELSE "null",
   pricing |-> Pricing(isPaymentConfigured(e))]

\* the body of GET /health (uptime and timestamp are the clock's)
HealthBody == [status |-> "healthy"]

\* router.get("/")
RouteRoot(r) ==
  /\ AtStage(r, "healthRoutes")
  /\ req[r].path = <<>>
  /\ req' = [req EXCEPT ![r] =
               [@ EXCEPT !.pc = "done", !.op = "root", !.sent = @ + 1,
                         !.resp = [shape |-> "http", status |-> 200,
                                   body |-> RootBody(env)]]]
  /\ UNCHANGED <<env, facilitatorUrl, payTo, stack>>

\* router.get("/health")
RouteHealth(r) ==
  /\ AtStage(r, "healthRoutes")
  /\ req[r].path = <<"health">>
  /\ req' = [req EXCEPT ![r] =
               [@ EXCEPT !.pc = "done", !.op = "health", !.sent = @ + 1,
                         !.resp = [shape |-> "http", status |-> 200,
                                   body |-> HealthBody]]]
  /\ UNCHANGED <<env, facilitatorUrl, payTo, stack>>

\* router.get("/info")
RouteInfo(r) ==
  /\ AtStage(r, "healthRoutes")
  /\ req[r].path = <<"info">>
  /\ req' = [req EXCEPT ![r] =
               [@ EXCEPT !.pc = "done", !.op = "info", !.sent = @ + 1,
                         !.resp = [shape |-> "http", status |-> 200,
                                   body |-> InfoBody(env)]]]
  /\ UNCHANGED <<env, facilitatorUrl, payTo, stack>>

\* no route of healthRoutes matches: the request goes on to the next router
HealthRoutesPass(r) ==
  /\ AtStage(r, "healthRoutes")
  /\ req[r].path \notin HealthPaths
  /\ req' = [req EXCEPT ![r] = [@ EXCEPT !.stage = @ + 1]]
  /\ UNCHANGED <<env, facilitatorUrl, payTo, stack>>

\* router.get("/simple/price"), up to the await
RouteSimplePrice(r) ==
  /\ AtStage(r, "coingeckoRoutes")
  /\ RoutedOperation(req[r].path) = "get_simple_price"
  /\ LET q == req[r].args
         params == HttpPriceParams(q)
         call == UpstreamRequest(Endpoint("get_simple_price"), params)
     IN req' = [req EXCEPT ![r] =
                  IF HttpPriceInvalid(q)
                    THEN HttpReject(@, "get_simple_price", params, call)
                    ELSE Suspend(@, "get_simple_price", params, call)]
  /\ UNCHANGED <<env, facilitatorUrl, payTo, stack>>

\* router.get("/search/trending"), up to the await
RouteTrending(r) ==
  /\ AtStage(r, "coingeckoRoutes")
  /\ RoutedOperation(req[r].path) = "get_trending_coins"
  /\ req' = [req EXCEPT ![r] =
               Suspend(@, "get_trending_coins", EmptyMap, BareCall("get_trending_coins", req[r].args))]
  /\ UNCHANGED <<env, facilitatorUrl, payTo, stack>>

\* router.get("/coins/list/new"), up to the await
RouteNewCoins(r) ==
  /\ AtStage(r, "coingeckoRoutes")
  /\ RoutedOperation(req[r].path) = "get_new_coins"
  /\ req' = [req EXCEPT ![r] =
               Suspend(@, "get_new_coins", EmptyMap, BareCall("get_new_coins", req[r].args))]
  /\ UNCHANGED <<env, facilitatorUrl, payTo, stack>>

\* router.get("/coins/:chainId/contract/:tokenAddress"), up to the await
RouteTokenByAddress(r) ==
  /\ AtStage(r, "coingeckoRoutes")
  /\ RoutedOperation(req[r].path) = "get_token_price_by_address"
  /\ LET ids == PathIds(req[r].path)
         params == TokenParams(req[r].args)
         call == UpstreamRequest(TokenEndpoint(ids.chainId, ids.tokenAddress),
                                 TokenCallParams(params))
     IN req' = [req EXCEPT ![r] =
                  IF HttpTokenInvalid(ids)
                    THEN HttpReject(@, "get_token_price_by_address", Merge(ids, params), call)
                    ELSE Suspend(@, "get_token_price_by_address", Merge(ids, params), call)]
  /\ UNCHANGED <<env, facilitatorUrl, payTo, stack>>

\* no route of the router serves the path: the request leaves the stack and
\* Express answers 404
NotFound == [shape |-> "http", status |-> 404, body |-> EmptyMap]

RouteNoMatch(r) ==
  /\ AtStage(r, "coingeckoRoutes")
  /\ RoutedOperation(req[r].path) = "none"
  /\ req' = [req EXCEPT ![r] =
               [@ EXCEPT !.pc = "done", !.resp = NotFound, !.sent = @ + 1]]
  /\ UNCHANGED <<env, facilitatorUrl, payTo, stack>>

(***************************************************************************)
(* The tool handlers of MCPServer, reached from the call-tool request      *)
(* handler (surface "tool") or from callTool (surface "facade").           *)
(***************************************************************************)
Dispatched(r, name) ==
  /\ req[r].pc = "dispatch"
  /\ req[r].name = name

\* what a handler or dispatcher throws to its caller
Raised(message) == [shape |-> "raised", status |-> 0, body |-> [message |-> message]]

\* variant: the arguments are read before the try block is entered
TypeErrorEscapes(op) == Raised(Msg("Cannot read properties of undefined", 0))

\* reading a property of, or destructuring, arguments that are undefined
\* throws inside the handler's try block: the catch returns the failure
TypeErrorAnswer(op) ==
  ToolRespond(op, EmptyMap,
              [ok |-> FALSE, data |-> "none",
               message |-> Msg("Cannot read properties of undefined", 0)])

\* handleGetSimplePrice, up to the await
HandleGetSimplePrice(r) ==
  /\ Dispatched(r, "get_simple_price")
  /\ LET a == req[r].args
         params == ToolPriceParams(a)
     IN req' = [req EXCEPT ![r] =
                  IF a = NoArgs
                    THEN Answer(@, "get_simple_price", TypeErrorAnswer("get_simple_price"))
                    ELSE Suspend(@, "get_simple_price", params,
                                 UpstreamRequest(Endpoint("get_simple_price"), params))]
  /\ UNCHANGED <<env, facilitatorUrl, payTo, stack>>

\* handleGetTrendingCoins, up to the await
HandleGetTrendingCoins(r) ==
  /\ Dispatched(r, "get_trending_coins")
  /\ req' = [req EXCEPT ![r] =
               Suspend(@, "get_trending_coins", EmptyMap, BareCall("get_trending_coins", req[r].args))]
  /\ UNCHANGED <<env, facilitatorUrl, payTo, stack>>

\* handleGetNewCoins, up to the await
HandleGetNewCoins(r) ==
  /\ Dispatched(r, "get_new_coins")
  /\ req' = [req EXCEPT ![r] =
               Suspend(@, "get_new_coins", EmptyMap, BareCall("get_new_coins", req[r].args))]
  /\ UNCHANGED <<env, facilitatorUrl, payTo, stack>>

\* handleGetTokenPriceByAddress, up to the await
HandleGetTokenPriceByAddress(r) ==
  /\ Dispatched(r, "get_token_price_by_address")
  /\ LET a == req[r].args
         ids == [chainId |-> Get(a, "chainId"), tokenAddress |-> Get(a, "tokenAddress")]
         params == TokenParams(a)
     IN req' = [req EXCEPT ![r] =
                  IF a = NoArgs
                    THEN Answer(@, "get_token_price_by_address",
                                TypeErrorAnswer("get_token_price_by_address"))
                    ELSE Suspend(@, "get_token_price_by_address", Merge(ids, params),
                                 UpstreamRequest(TokenEndpoint(ids.chainId, ids.tokenAddress),
                                                 TokenCallParams(params)))]
  /\ UNCHANGED <<env, facilitatorUrl, payTo, stack>>

\* a list-* request handler or a get* method returns its list
AnswerDiscovery(r) ==
  /\ req[r].pc = "dispatch"
  /\ req[r].surface = "discovery"
  /\ req' = [req EXCEPT ![r] =
               [@ EXCEPT !.pc = "done", !.op = req[r].name,
                         !.resp = [shape |-> "list", status |-> 0,
                                   body |-> [items |-> Declared(req[r].name)]]]]
  /\ UNCHANGED <<env, facilitatorUrl, payTo, stack>>

(***************************************************************************)
(* A tool name that is no case of the switch.                              *)
(***************************************************************************)
\* the content block of the call-tool request handler's default branch
UnknownToolBlock(name) ==
  [shape |-> "content", status |-> 0,
   body |-> [text |-> "Error: Unknown tool", name |-> name]]

\* the default branch of callTool
CallToolDefault(name) == Raised(Msg("Unknown tool", 0))

\* the call-tool request handler, default branch of its switch
CallToolRequestUnknown(r) ==
  /\ req[r].pc = "dispatch"
  /\ req[r].surface = "tool"
  /\ req[r].name \notin Operations
  /\ req' = [req EXCEPT ![r] =
               [@ EXCEPT !.pc = "done", !.resp = UnknownToolBlock(req[r].name)]]
  /\ UNCHANGED <<env, facilitatorUrl, payTo, stack>>

\* callTool, default branch of its switch
CallToolUnknown(r) ==
  /\ req[r].pc = "dispatch"
  /\ req[r].surface \in {"facade", "callTool"}
  /\ req[r].name \notin Operations
  /\ req' = [req EXCEPT ![r] =
               [@ EXCEPT !.pc = "done", !.resp = CallToolDefault(req[r].name)]]
  /\ UNCHANGED <<env, facilitatorUrl, payTo, stack>>

(***************************************************************************)
(* The resource handlers of MCPServer, reached from the read-resource      *)
(* request handler (surface "resource").                                   *)
(***************************************************************************)
\* the contents a resource handler returns
Contents(uri, text) ==
  [shape |-> "contents", status |-> 0, body |-> [uri |-> uri, text |-> text]]

\* the text of the error a resource handler throws from its catch
ResourceFailure(uri) ==
  CASE uri = MarketStatusUri -> "Failed to fetch market status"
    [] uri = TrendingCoinsUri -> "Failed to fetch trending coins"
    [] uri = NewCoinsUri -> "Failed to fetch new coins"

\* variant: the default branch answers with empty contents
ReadResourceDefaultEmpty(uri) == Contents(uri, [document |-> "none"])

\* the default branch of the read-resource switch
ReadResourceDefault(uri) == Raised(Msg("Unknown resource", 0))

\* the second call of handleMarketStatusResource
MarketStatusParams ==
  [ids |-> Str("bitcoin,ethereum"), vs_currencies |-> Str("usd"),
   include_market_cap |-> Str("true"), include_24hr_vol |-> Str("true"),
   include_24hr_change |-> Str("true")]

\* trendingData.coins of a parsed body that is an object
HasCoins(data) == data \in {"D1", "D0"}
Coins(data) == IF data = "D1" THEN <<"coin1", "coin2", "coin3">> ELSE <<>>

\* variant: the count is the length of the list, which an absent list
\* gives as one placeholder
TrendingCountAbsentAsOne(data) == IF HasCoins(data) THEN Len(Coins(data)) ELSE 1

\* trendingData.coins?.length || 0: undefined when the list is absent, and
\* undefined or 0 gives 0
TrendingCount(data) ==
  IF HasCoins(data) /\ Len(Coins(data)) # 0 THEN Len(Coins(data)) ELSE 0

\* the return expression of a resource handler evaluates: reading
\* trendingData.coins of a null body throws a TypeError inside the try
DocumentBuilt(rq) ==
  rq.op # MarketStatusUri \/ rq.settled[1].body # NullBody

\* the document of the market status resource (the clock's reading is one
\* fixed text)
MarketStatusText(trendingData, priceData) ==
  [status |-> "active", timestamp |-> "now", topCoins |-> priceData,
   trendingCount |-> TrendingCount(trendingData),
   summary |-> "Live crypto market data from CoinGecko"]

ReadResourceUnknown(r) ==
  /\ req[r].pc = "dispatch"
  /\ req[r].surface = "resource"
  /\ req[r].name \notin ResourceUris
  /\ req' = [req EXCEPT ![r] =
               [@ EXCEPT !.pc = "done", !.resp = ReadResourceDefault(req[r].name)]]
  /\ UNCHANGED <<env, facilitatorUrl, payTo, stack>>

\* handleMarketStatusResource, up to its first await
HandleMarketStatusResource(r) ==
  /\ Dispatched(r, MarketStatusUri)
  /\ req' = [req EXCEPT ![r] =
               Suspend(@, MarketStatusUri, EmptyMap,
                       UpstreamRequest(Endpoint("get_trending_coins"), NoParams))]
  /\ UNCHANGED <<env, facilitatorUrl, payTo, stack>>

\* handleTrendingCoinsResource, up to the await
HandleTrendingCoinsResource(r) ==
  /\ Dispatched(r, TrendingCoinsUri)
  /\ req' = [req EXCEPT ![r] =
               Suspend(@, TrendingCoinsUri, EmptyMap,
                       UpstreamRequest(Endpoint("get_trending_coins"), NoParams))]
  /\ UNCHANGED <<env, facilitatorUrl, payTo, stack>>

\* handleNewCoinsResource, up to the await
HandleNewCoinsResource(r) ==
  /\ Dispatched(r, NewCoinsUri)
  /\ req' = [req EXCEPT ![r] =
               Suspend(@, NewCoinsUri, EmptyMap,
                       UpstreamRequest(Endpoint("get_new_coins"), NoParams))]
  /\ UNCHANGED <<env, facilitatorUrl, payTo, stack>>

\* handleApiInfoResource: a fixed document, no outbound call
HandleApiInfoResource(r) ==
  /\ Dispatched(r, ApiInfoUri)
  /\ req' = [req EXCEPT ![r] =
               Answer(@, ApiInfoUri,
                      Contents(ApiInfoUri, [document |-> "CoinGecko API Information"]))]
  /\ UNCHANGED <<env, facilitatorUrl, payTo, stack>>

\* variant: the status document is returned without the prices when the
\* second call fails
ResourceResumePartial(rq, u) ==
  IF (CallResult(u).ok \/ rq.op = MarketStatusUri) /\ DocumentBuilt(rq)
    THEN [rq EXCEPT !.pc = "done", !.upstream = u, !.settled = Append(@, u),
                    !.resp = Contents(rq.op,
                               IF rq.op = MarketStatusUri
                                 THEN MarketStatusText(rq.settled[1].body,
                                                       CallResult(u).data)
                                 ELSE [data |-> CallResult(u).data])]
    ELSE [rq EXCEPT !.pc = "done", !.upstream = u, !.settled = Append(@, u),
                    !.resp = Raised(Msg(ResourceFailure(rq.op),
                                        CallResult(u).message.status))]

\* a resource handler after its last await: the contents built from the
\* data, or the error thrown from its catch
ResourceResume(rq, u) ==
  IF CallResult(u).ok /\ DocumentBuilt(rq)
    THEN [rq EXCEPT !.pc = "done", !.upstream = u, !.settled = Append(@, u),
                    !.resp = Contents(rq.op,
                               IF rq.op = MarketStatusUri
                                 THEN MarketStatusText(rq.settled[1].body,
                                                       CallResult(u).data)
                                 ELSE [data |-> CallResult(u).data])]
    ELSE [rq EXCEPT !.pc = "done", !.upstream = u, !.settled = Append(@, u),
                    !.resp = Raised(Msg(ResourceFailure(rq.op),
                                        CallResult(u).message.status))]

\* variant: the second call is issued whatever the first call gave
MarketStatusContinueAlways(rq, u) ==
  [rq EXCEPT !.upstream = u, !.settled = Append(@, u),
             !.calls = Append(@, UpstreamRequest(Endpoint("get_simple_price"),
                                                 MarketStatusParams))]

\* handleMarketStatusResource after its first await: the second call is
\* issued when the first gave data, else the catch throws
MarketStatusContinue(rq, u) ==
  IF CallResult(u).ok
    THEN [rq EXCEPT !.upstream = u, !.settled = Append(@, u),
                    !.calls = Append(@, UpstreamRequest(Endpoint("get_simple_price"),
                                                        MarketStatusParams))]
    ELSE [rq EXCEPT !.pc = "done", !.upstream = u, !.settled = Append(@, u),
                    !.resp = Raised(Msg(ResourceFailure(rq.op),
                                        CallResult(u).message.status))]

\* the first call of the market status resource settles
MarketStatusTrendingSettles(r) ==
  /\ req[r].pc = "awaiting"
  /\ ~req[r].hung
  /\ req[r].op = MarketStatusUri
  /\ req[r].settled = <<>>
  /\ \E u \in UpstreamOutcomes : req' = [req EXCEPT ![r] = MarketStatusContinue(@, u)]
  /\ UNCHANGED <<env, facilitatorUrl, payTo, stack>>

\* the last call of a resource handler settles
ResourceSettles(r) ==
  /\ req[r].pc = "awaiting"
  /\ ~req[r].hung
  /\ req[r].surface = "resource"
  /\ req[r].op = MarketStatusUri => req[r].settled # <<>>
  /\ \E u \in UpstreamOutcomes : req' = [req EXCEPT ![r] = ResourceResume(@, u)]
  /\ UNCHANGED <<env, facilitatorUrl, payTo, stack>>

(***************************************************************************)
(* The prompt handlers of MCPServer, reached from the get-prompt request   *)
(* handler (surface "prompt").                                             *)
(***************************************************************************)
UnknownPrompt == "portfolio_review"

\* the argument names a prompt handler reads
PromptKeys(name) ==
  CASE name = "crypto_price_check" -> {"tokens", "currencies"}
    [] name = "token_research" -> {"chain", "address"}
    [] OTHER -> {}

\* what a caller can put under one prompt argument (Undef: the key is absent)
PromptValues == {Undef, EmptyStr, Str("solana")}

\* request.params.arguments: absent, or an object
PromptArgs(name) == {NoArgs} \cup [PromptKeys(name) -> PromptValues]

\* a protocol get-prompt request
ReceivePrompt(r) ==
  /\ req[r].pc = "idle"
  /\ \E name \in PromptNames \cup {UnknownPrompt} :
       \E args \in PromptArgs(name) :
         req' = [req EXCEPT ![r] =
                   [@ EXCEPT !.pc = "dispatch", !.surface = "prompt", !.name = name,
                             !.args = args]]
  /\ UNCHANGED <<env, facilitatorUrl, payTo, stack>>

\* a || b
OrDefault(v, d) == IF Truthy(v) THEN v ELSE d

\* { messages: [{ role: "user", content: { type: "text", text } }] }; the
\* text is held as the values interpolated and the tool names it mentions
Messages(text) ==
  [shape |-> "messages", status |-> 0, body |-> [role |-> "user", text |-> text]]

CryptoPriceCheckText(tokens, currencies) ==
  [tokens |-> ToStr(tokens), currencies |-> ToStr(currencies),
   tools |-> {"get_simple_price"}]

MarketAnalysisText == [tools |-> {"get_trending_coins", "get_new_coins"}]

TokenResearchText(address, chain) ==
  [address |-> ToStr(address), chain |-> ToStr(chain),
   tools |-> {"get_token_price_by_address"}]

\* the default branch of the get-prompt switch
GetPromptUnknown(r) ==
  /\ req[r].pc = "dispatch"
  /\ req[r].surface = "prompt"
  /\ req[r].name \notin PromptNames
  /\ req' = [req EXCEPT ![r] =
               [@ EXCEPT !.pc = "done", !.resp = Raised(Msg("Unknown prompt", 0))]]
  /\ UNCHANGED <<env, facilitatorUrl, payTo, stack>>

\* handleCryptoPriceCheckPrompt
HandleCryptoPriceCheckPrompt(r) ==
  /\ Dispatched(r, "crypto_price_check")
  /\ LET tokens == OrDefault(Get(req[r].args, "tokens"), Str("bitcoin,ethereum,solana"))
         currencies == OrDefault(Get(req[r].args, "currencies"), Str("usd,eur"))
     IN req' = [req EXCEPT ![r] =
                  Answer(@, "crypto_price_check",
                         Messages(CryptoPriceCheckText(tokens, currencies)))]
  /\ UNCHANGED <<env, facilitatorUrl, payTo, stack>>

\* handleMarketAnalysisPrompt
HandleMarketAnalysisPrompt(r) ==
  /\ Dispatched(r, "market_analysis")
  /\ req' = [req EXCEPT ![r] =
               Answer(@, "market_analysis", Messages(MarketAnalysisText))]
  /\ UNCHANGED <<env, facilitatorUrl, payTo, stack>>

\* variant: an absent chain is refused as an absent address is
TokenResearchRefusedStrict(args) ==
  ~Truthy(Get(args, "address")) \/ ~Truthy(Get(args, "chain"))

\* if (!address) throw
TokenResearchRefused(args) == ~Truthy(Get(args, "address"))

\* handleTokenResearchPrompt
HandleTokenResearchPrompt(r) ==
  /\ Dispatched(r, "token_research")
  /\ LET chain == OrDefault(Get(req[r].args, "chain"), Str("ethereum"))
         address == Get(req[r].args, "address")
     IN req' = [req EXCEPT ![r] =
                  Answer(@, "token_research",
                         IF TokenResearchRefused(req[r].args)
                           THEN Raised(Msg("Token address is required for token research", 0))
                           ELSE Messages(TokenResearchText(address, chain)))]
  /\ UNCHANGED <<env, facilitatorUrl, payTo, stack>>

(***************************************************************************)
(* The outbound call settles and the handler runs to its end.              *)
(***************************************************************************)
\* variant: a failed call is issued once more before the handler answers
ResumeRetry(rq, u) ==
  IF ~CallResult(u).ok /\ Len(rq.calls) < 2
    THEN [rq EXCEPT !.calls = Append(@, @[1])]
    ELSE [rq EXCEPT !.pc = "done", !.upstream = u, !.settled = Append(@, u),
                    !.sent = IF rq.surface = "http" THEN @ + 1 ELSE @,
                    !.resp = IF rq.surface = "http"
                               THEN HttpRespond(rq.op, rq.echo, CallResult(u))
                               ELSE ToolRespond(rq.op, rq.echo, CallResult(u))]

\* variant: params is kept in one variable of the module, so that the answer
\* echoes the params of another request that a handler has taken up
ResumeShared(rq, u) ==
  LET others == {q \in DOMAIN req : req[q].handled /\ req[q] # rq}
      echo == IF others = {} THEN rq.echo ELSE req[CHOOSE q \in others : TRUE].echo
  IN [rq EXCEPT !.pc = "done", !.upstream = u, !.settled = Append(@, u),
                !.sent = IF rq.surface = "http" THEN @ + 1 ELSE @,
                !.resp = IF rq.surface = "http"
                           THEN HttpRespond(rq.op, echo, CallResult(u))
                           ELSE ToolRespond(rq.op, echo, CallResult(u))]

\* the handler after its await: the answer built from the call's result,
\* sent with res.json on the HTTP surface and returned on the others
Resume(rq, u) ==
  [rq EXCEPT !.pc = "done", !.upstream = u, !.settled = Append(@, u),
             !.sent = IF rq.surface = "http" THEN @ + 1 ELSE @,
             !.resp = IF rq.surface = "http"
                        THEN HttpRespond(rq.op, rq.echo, CallResult(u))
                        ELSE ToolRespond(rq.op, rq.echo, CallResult(u))]

\* variant: the wait for the call holds the whole process, so that nothing
\* settles while the call of another request hangs
UpstreamSettlesBlocking(r) ==
  /\ req[r].pc = "awaiting"
  /\ \A q \in DOMAIN req : ~req[q].hung
  /\ req[r].surface # "resource"
  /\ \E u \in UpstreamOutcomes : req' = [req EXCEPT ![r] = Resume(@, u)]
  /\ UNCHANGED <<env, facilitatorUrl, payTo, stack>>

\* fetch settles (a call that hangs never does)
UpstreamSettles(r) ==
  /\ req[r].pc = "awaiting"
  /\ ~req[r].hung
  /\ req[r].surface # "resource"
  /\ \E u \in UpstreamOutcomes : req' = [req EXCEPT ![r] = Resume(@, u)]
  /\ UNCHANGED <<env, facilitatorUrl, payTo, stack>>

Next ==
  \E r \in Slots :
    \/ ReceiveHttp(r)
    \/ ReceiveTool(r)
    \/ ReceiveFacade(r)
    \/ ReceiveCallTool(r)
    \/ ReceiveResource(r)
    \/ ReceiveInfo(r)
    \/ ReceiveDiscovery(r)
    \/ AnswerDiscovery(r)
    \/ PaymentMiddleware(r)
    \/ RouteRoot(r)
    \/ RouteHealth(r)
    \/ RouteInfo(r)
    \/ HealthRoutesPass(r)
    \/ RouteSimplePrice(r)
    \/ RouteTrending(r)
    \/ RouteNewCoins(r)
    \/ RouteTokenByAddress(r)
    \/ RouteNoMatch(r)
    \/ HandleGetSimplePrice(r)
    \/ HandleGetTrendingCoins(r)
    \/ HandleGetNewCoins(r)
    \/ HandleGetTokenPriceByAddress(r)
    \/ CallToolRequestUnknown(r)
    \/ CallToolUnknown(r)
    \/ ReceivePrompt(r)
    \/ GetPromptUnknown(r)
    \/ HandleCryptoPriceCheckPrompt(r)
    \/ HandleMarketAnalysisPrompt(r)
    \/ HandleTokenResearchPrompt(r)
    \/ ReadResourceUnknown(r)
    \/ HandleMarketStatusResource(r)
    \/ HandleTrendingCoinsResource(r)
    \/ HandleNewCoinsResource(r)
    \/ HandleApiInfoResource(r)
    \/ MarketStatusTrendingSettles(r)
    \/ ResourceSettles(r)
    \/ UpstreamSettles(r)

Spec == Init /\ [][Next]_vars

(***************************************************************************)
(* Two requests in flight.  Each request runs as its own asynchronous      *)
(* task: the steps of the two are interleaved in every order, a task       *)
(* giving way at its awaits.                                               *)
(***************************************************************************)
ConcSlots == {"r1", "r2"}

\* the requests of the concurrent runs: two price lookups and two token
\* lookups that differ in their inputs on each surface, and one request for
\* every other route, tool name and resource
ConcRequests ==
  {[surface |-> "http", name |-> "none",
    path |-> UrlSegments("mcp", "get_simple_price", "", ""),
    args |-> [ids |-> Str(i), vs_currencies |-> Str("usd")]] : i \in {"bitcoin", "ethereum"}}
  \cup
  {[surface |-> "http", name |-> "none",
    path |-> UrlSegments("mcp", "get_token_price_by_address", c, "0xABC"),
    args |-> [localization |-> Str("true")]] : c \in {"ethereum", "base"}}
  \cup
  {[surface |-> "http", name |-> "none", path |-> UrlSegments(m, op, "", ""),
    args |-> EmptyMap] : m \in {"mcp", "coingecko"},
                         op \in {"get_trending_coins", "get_new_coins"}}
  \cup
  {[surface |-> "tool", name |-> "get_simple_price", path |-> <<>>,
    args |-> [ids |-> Str(i), vs_currencies |-> Str("usd"), precision |-> Num("0")]] :
      i \in {"bitcoin", "ethereum"}}
  \cup
  {[surface |-> "callTool", name |-> "get_token_price_by_address", path |-> <<>>,
    args |-> [chainId |-> Str(c), tokenAddress |-> Str("0xABC")]] : c \in {"ethereum", "base"}}
  \cup
  {[surface |-> "tool", name |-> n, path |-> <<>>, args |-> EmptyMap] :
      n \in {"get_trending_coins", "get_new_coins", UnknownTool}}
  \cup
  {[surface |-> "callTool", name |-> UnknownTool, path |-> <<>>, args |-> EmptyMap]}
  \cup
  {[surface |-> "resource", name |-> uri, path |-> <<>>, args |-> EmptyMap] :
      uri \in ResourceUris \cup {UnknownUri}}

InitConc ==
  /\ env \in [FACILITATOR_URL : {Undef, Str("set")}, ADDRESS : {Str("set")}]
  /\ facilitatorUrl = getFacilitatorUrl(env)
  /\ payTo = getPaymentAddress(env)
  /\ stack = BuildStack(facilitatorUrl, payTo)
  /\ req = [r \in ConcSlots |-> IdleReq]

\* a request arrives while the other may be in flight
ReceiveConc(r) ==
  /\ req[r].pc = "idle"
  /\ \E q \in ConcRequests :
       req' = [req EXCEPT ![r] =
                 [@ EXCEPT !.pc = IF q.surface = "http" THEN "pipeline" ELSE "dispatch",
                           !.surface = q.surface, !.name = q.name, !.path = q.path,
                           !.args = q.args,
                           !.stage = IF q.surface = "http" THEN 1 ELSE 0]]
  /\ UNCHANGED <<env, facilitatorUrl, payTo, stack>>

NextConc ==
  \E r \in ConcSlots :
    \/ ReceiveConc(r)
    \/ PaymentMiddleware(r)
    \/ HealthRoutesPass(r)
    \/ RouteSimplePrice(r)
    \/ RouteTrending(r)
    \/ RouteNewCoins(r)
    \/ RouteTokenByAddress(r)
    \/ RouteNoMatch(r)
    \/ HandleGetSimplePrice(r)
    \/ HandleGetTrendingCoins(r)
    \/ HandleGetNewCoins(r)
    \/ HandleGetTokenPriceByAddress(r)
    \/ CallToolRequestUnknown(r)
    \/ CallToolUnknown(r)
    \/ ReadResourceUnknown(r)
    \/ HandleMarketStatusResource(r)
    \/ HandleTrendingCoinsResource(r)
    \/ HandleNewCoinsResource(r)
    \/ HandleApiInfoResource(r)
    \/ MarketStatusTrendingSettles(r)
    \/ ResourceSettles(r)
    \/ UpstreamSettles(r)

SpecConc == InitConc /\ [][NextConc]_vars

(***************************************************************************)
(* Two requests in flight, a call that may hang, and the scheduling of the *)
(* event loop: a task that can take a step is given its turn.              *)
(***************************************************************************)
\* fetch is called without a timeout or an abort signal: the call of a
\* request may stay pending for ever
UpstreamHangs(r) ==
  /\ req[r].pc = "awaiting"
  /\ ~req[r].hung
  /\ req' = [req EXCEPT ![r] = [@ EXCEPT !.hung = TRUE]]
  /\ UNCHANGED <<env, facilitatorUrl, payTo, stack>>

\* the steps of the task of one request, once the request is received
TaskStep(r) ==
  \/ PaymentMiddleware(r)
  \/ HealthRoutesPass(r)
  \/ RouteSimplePrice(r)
  \/ RouteTrending(r)
  \/ RouteNewCoins(r)
  \/ RouteTokenByAddress(r)
  \/ RouteNoMatch(r)
  \/ HandleGetSimplePrice(r)
  \/ HandleGetTrendingCoins(r)
  \/ HandleGetNewCoins(r)
  \/ HandleGetTokenPriceByAddress(r)
  \/ CallToolRequestUnknown(r)
  \/ CallToolUnknown(r)
  \/ ReadResourceUnknown(r)
  \/ HandleMarketStatusResource(r)
  \/ HandleTrendingCoinsResource(r)
  \/ HandleNewCoinsResource(r)
  \/ HandleApiInfoResource(r)
  \/ MarketStatusTrendingSettles(r)
  \/ ResourceSettles(r)
  \/ UpstreamSettles(r)

NextLive ==
  \E r \in ConcSlots :
    \/ ReceiveConc(r)
    \/ UpstreamHangs(r)
    \/ TaskStep(r)

SpecLive ==
  /\ InitConc
  /\ [][NextLive]_vars
  /\ \A r \in ConcSlots : WF_vars(TaskStep(r))

(***************************************************************************)
(* Properties.                                                             *)
(***************************************************************************)
\* the payment middleware is part of the app
GateEnabled == \E i \in 1..Len(stack) : stack[i] = "paymentMiddleware"

\* the request asks for price lookup or token by address
ValidatedOperation(rq) ==
  IF rq.surface = "http"
    THEN RoutedOperation(rq.path) \in {"get_simple_price", "get_token_price_by_address"}
    ELSE rq.name \in {"get_simple_price", "get_token_price_by_address"}

\* the inputs of a request under their parameter names
InputOf(rq) ==
  IF rq.surface = "http" /\ RoutedOperation(rq.path) = "get_token_price_by_address"
    THEN Merge(PathIds(rq.path), rq.args)
    ELSE rq.args

\* a required input is left out of the request
OmitsRequired(rq) ==
  \/ rq.args = NoArgs
  \/ \E k \in RequiredKeys(IF rq.surface = "http" THEN RoutedOperation(rq.path) ELSE rq.name) :
       Get(InputOf(rq), k) = Undef

\* no outbound call was made for the request, and its answer, once given,
\* is a failure
IsValidationFailure(rq) ==
  /\ rq.calls = <<>>
  /\ rq.pc = "done" => "error" \in DOMAIN rq.resp.body

\* C1: on every surface, a price lookup that lacks ids or vs_currencies and
\* a token-by-address call that lacks chainId or tokenAddress end in a
\* validation failure, and no outbound call is made for the request.
C1_MissingRequiredMakesNoCall ==
  \A r \in Slots :
    (req[r].handled /\ ValidatedOperation(req[r]) /\ OmitsRequired(req[r]))
      => IsValidationFailure(req[r])

C3_DisabledGateNeverRuns ==
  (~Truthy(env.FACILITATOR_URL) \/ ~Truthy(env.ADDRESS)) =>
    \A r \in Slots :
      (req[r].surface = "http" /\ RoutedOperation(req[r].path) # "none") =>
        /\ req[r].gate = "none"
        /\ req[r].resp.status # 402
        /\ req[r].pc = "pipeline" =>
             (AtStage(r, "healthRoutes") \/ AtStage(r, "coingeckoRoutes"))
        /\ req[r].pc \in {"awaiting", "done"} => req[r].handled

C3_Witness ==
  /\ Truthy(env.FACILITATOR_URL)
  /\ ~Truthy(env.ADDRESS)
  /\ \E r \in Slots :
       /\ req[r].surface = "http"
       /\ req[r].handled
       /\ req[r].gate = "none"
       /\ req[r].pc = "done"
       /\ req[r].resp.status = 200

\* C4: the payment gate is enabled exactly when both FACILITATOR_URL and
\* ADDRESS were configured at startup, and no step taken after startup (a
\* request, a response, a read of the configuration) changes whether the
\* routes are gated.
C4_GateFixedAtStartup ==
  /\ [](GateEnabled <=> isPaymentConfigured(env))
  /\ [][GateEnabled' = GateEnabled /\ stack' = stack]_vars

C4_Witness ==
  /\ GateEnabled
  /\ env.FACILITATOR_URL = Str("set")
  /\ \E r \in Slots : req[r].pc = "done" /\ req[r].handled

\* every required input of the request's operation is there and not empty
RequiredPresent(rq) ==
  /\ rq.args # NoArgs
  /\ \A k \in RequiredKeys(rq.op) : Get(InputOf(rq), k) \notin {Undef, Null, EmptyStr}

\* the outbound calls the HTTP route of an operation makes for given inputs
HttpCalls(op, in) ==
  CASE op = "get_simple_price" ->
         IF HttpPriceInvalid(in) THEN <<>>
         ELSE <<UpstreamRequest(Endpoint(op), HttpPriceParams(in))>>
    [] op = "get_token_price_by_address" ->
         IF HttpTokenInvalid([chainId |-> Get(in, "chainId"),
                              tokenAddress |-> Get(in, "tokenAddress")])
           THEN <<>>
           ELSE <<UpstreamRequest(TokenEndpoint(Get(in, "chainId"), Get(in, "tokenAddress")),
                                  TokenCallParams(TokenParams(in)))>>
    [] OTHER -> <<UpstreamRequest(Endpoint(op), NoParams)>>

\* the outbound calls the tool handler of an operation makes for given inputs
ToolCalls(op, in) ==
  CASE op = "get_simple_price" -> <<UpstreamRequest(Endpoint(op), ToolPriceParams(in))>>
    [] op = "get_token_price_by_address" ->
         <<UpstreamRequest(TokenEndpoint(Get(in, "chainId"), Get(in, "tokenAddress")),
                           TokenCallParams(TokenParams(in)))>>
    [] OTHER -> <<UpstreamRequest(Endpoint(op), NoParams)>>

\* inputs that a query string and a tool call can both carry
CommonInput(in) ==
  /\ in # NoArgs
  /\ \A k \in DOMAIN in : in[k].t \in {"undefined", "string"}

\* C5: for each operation and every input set, the HTTP route, the tool
\* call and the facade accept or reject the same inputs and send the same
\* upstream path and query: what a request sent is what each surface sends
\* for its inputs.
C5_SurfacesAgree ==
  \A r \in Slots :
    (req[r].handled /\ req[r].op \in Operations /\ CommonInput(InputOf(req[r]))) =>
      /\ req[r].calls = HttpCalls(req[r].op, InputOf(req[r]))
      /\ req[r].calls = ToolCalls(req[r].op, InputOf(req[r]))

\* C6: an optional parameter supplied as undefined, null or the empty
\* string is not in the query sent upstream, and one supplied with any other
\* value is in it, as its string form.
C6_OptionalParametersFiltered ==
  \A r \in Slots :
    (req[r].handled /\ req[r].calls # <<>> /\ RequiredPresent(req[r])) =>
      \A k \in OptionalKeys(req[r].op) :
        LET v == Get(InputOf(req[r]), k)
            query == req[r].calls[1].query
        IN IF v \in {Undef, Null, EmptyStr}
             THEN k \notin DOMAIN query
             ELSE k \in DOMAIN query /\ query[k] = ToStr(v)

IsSuccessEnvelope(body) ==
  /\ "success" \in DOMAIN body
  /\ body.success
  /\ "error" \notin DOMAIN body

IsFailureEnvelope(body) == DOMAIN body = {"error", "message"}

\* C7: for all four operations, when every required input is present and
\* the upstream call returns a 2xx JSON body, the result is a success
\* envelope whose data is that body unchanged.
C7_SuccessCarriesUpstreamBody ==
  \A r \in Slots :
    (/\ req[r].pc = "done"
     /\ req[r].handled
     /\ req[r].op \in Operations
     /\ RequiredPresent(req[r])
     /\ req[r].upstream.kind = "json"
     /\ ResponseOk(req[r].upstream)) =>
      /\ IsSuccessEnvelope(req[r].resp.body)
      /\ req[r].resp.body.data = req[r].upstream.body

C7_Witness ==
  \E r \in Slots :
    /\ req[r].pc = "done"
    /\ req[r].surface = "tool"
    /\ req[r].op = "get_token_price_by_address"
    /\ RequiredPresent(req[r])
    /\ req[r].upstream = [kind |-> "json", status |-> 200, body |-> "D2"]
    /\ IsSuccessEnvelope(req[r].resp.body)
    /\ req[r].resp.body.data = "D2"

\* C8: when the upstream answers with a status that is not 2xx, the
\* operation returns a failure envelope whose message holds that status, and
\* exactly one outbound call was made: the failed call is not retried.
C8_UpstreamErrorFailsOnce ==
  \A r \in Slots :
    (/\ req[r].pc = "done"
     /\ req[r].op \in Operations
     /\ req[r].upstream.kind = "json"
     /\ ~ResponseOk(req[r].upstream)) =>
      /\ IsFailureEnvelope(req[r].resp.body)
      /\ req[r].resp.body.message.status = req[r].upstream.status
      /\ Len(req[r].calls) = 1

C8_Witness ==
  \E r \in Slots :
    /\ req[r].pc = "done"
    /\ req[r].op = "get_trending_coins"
    /\ req[r].upstream.status = 404
    /\ IsFailureEnvelope(req[r].resp.body)
    /\ req[r].resp.body.message = Msg("CoinGecko API error", 404)
    /\ Len(req[r].calls) = 1

\* C9: GET /simple/price with ids missing or empty, or vs_currencies
\* missing or empty, is answered 400 with required listing ids and
\* vs_currencies, and the handler returns without calling the upstream.
C9_PriceRouteRejectsMissing ==
  \A r \in Slots :
    (/\ req[r].surface = "http"
     /\ req[r].handled
     /\ req[r].op = "get_simple_price"
     /\ \E k \in PriceRequired : Get(req[r].args, k) \in {Undef, EmptyStr}) =>
      /\ req[r].pc = "done"
      /\ req[r].resp.status = 400
      /\ "required" \in DOMAIN req[r].resp.body
      /\ req[r].resp.body.required = <<"ids", "vs_currencies">>
      /\ req[r].calls = <<>>

C9_Witness ==
  \E r \in Slots :
    /\ req[r].surface = "http"
    /\ req[r].handled
    /\ req[r].op = "get_simple_price"
    /\ Get(req[r].args, "ids") = Undef
    /\ Get(req[r].args, "vs_currencies") = Str("bitcoin")
    /\ req[r].resp.status = 400

\* C10: an HTTP operation request that reached its handler is answered 200
\* with the success envelope when the upstream call succeeded, 400 when a
\* required input is missing, and 500 on every other failure; the 500 body
\* holds the error category and the error's message text and nothing else.
C10_HttpOutcomes ==
  \A r \in Slots :
    (req[r].surface = "http" /\ req[r].handled /\ req[r].pc = "done") =>
      LET rq == req[r]
          missing == \E k \in RequiredKeys(rq.op) : Get(InputOf(rq), k) \in {Undef, EmptyStr}
          succeeded == rq.upstream.kind = "json" /\ ResponseOk(rq.upstream)
      IN /\ rq.resp.shape = "http"
         /\ rq.resp.status \in {200, 400, 500}
         /\ rq.resp.status = 400 <=> missing
         /\ rq.resp.status = 200 <=> (~missing /\ succeeded)
         /\ rq.resp.status = 500 <=> (~missing /\ ~succeeded)
         /\ rq.resp.status = 200 =>
              (IsSuccessEnvelope(rq.resp.body) /\ rq.resp.body.data = rq.upstream.body)
         /\ rq.resp.status = 400 => (rq.calls = <<>> /\ "required" \in DOMAIN rq.resp.body)
         /\ rq.resp.status = 500 =>
              /\ Len(rq.calls) = 1
              /\ DOMAIN rq.resp.body = {"error", "message"}
              /\ rq.resp.body.error = ErrorCategory(rq.op)
              /\ rq.resp.body.message = CallResult(rq.upstream).message

C10_Witness ==
  \E r \in Slots :
    /\ req[r].surface = "http"
    /\ req[r].handled
    /\ req[r].pc = "done"
    /\ req[r].upstream.kind = "transport"
    /\ req[r].resp.status = 500
    /\ DOMAIN req[r].resp.body = {"error", "message"}


\* the request addresses the token-by-address route of the router with an
\* empty chain identifier or an empty token address segment
LacksPathParameter(rq) ==
  /\ rq.surface = "http"
  /\ Len(rq.path) = 5
  /\ rq.path[1] = "mcp" /\ rq.path[2] = "coins" /\ rq.path[4] = "contract"
  /\ (rq.path[3] = "" \/ rq.path[5] = "")

\* C11: a token-by-address HTTP request that lacks the chain identifier or
\* the token address path parameter is answered with status 400, and the
\* answer names the path parameters chainId and tokenAddress.
C11_TokenRouteRejectsMissing ==
  \A r \in Slots :
    (LacksPathParameter(req[r]) /\ req[r].pc = "done" /\ req[r].gate # "rejected")
      => /\ req[r].resp.status = 400
         /\ req[r].resp = BadRequest("get_token_price_by_address")


\* C12: no failure of an operation escapes a tool handler or an HTTP route
\* handler: a tool call of one of the four names always ends in a content
\* block holding a success or a failure envelope, whatever its arguments and
\* also without arguments, an HTTP request that reached its handler always
\* ends in an HTTP answer, and a failed call raises only on the
\* read-resource path.
C12_NoFaultEscapesHandlers ==
  \A r \in Slots :
    req[r].pc = "done" =>
      /\ (req[r].surface \in {"tool", "facade", "callTool"} /\ req[r].name \in Operations) =>
           /\ req[r].resp.shape = "content"
           /\ IsSuccessEnvelope(req[r].resp.body) \/ IsFailureEnvelope(req[r].resp.body)
      /\ (req[r].surface = "http" /\ req[r].handled) =>
           /\ req[r].resp.shape = "http"
           /\ \/ IsSuccessEnvelope(req[r].resp.body)
              \/ IsFailureEnvelope(req[r].resp.body)
              \/ req[r].resp = BadRequest(req[r].op)
      /\ (req[r].resp.shape = "raised" /\ req[r].calls # <<>>) =>
           req[r].surface = "resource"
      /\ (req[r].surface = "resource" /\ req[r].calls # <<>>
            /\ ~CallResult(req[r].upstream).ok) =>
           req[r].resp.shape = "raised"

C12_Witness ==
  \E r \in Slots :
    /\ req[r].pc = "done"
    /\ req[r].surface = "tool"
    /\ req[r].name = "get_token_price_by_address"
    /\ req[r].args = NoArgs
    /\ req[r].resp.shape = "content"
    /\ IsFailureEnvelope(req[r].resp.body)
    /\ req[r].calls = <<>>


\* C13: a tool invoked by a name that is not one of the four operation
\* names is answered with the textual error content block and nothing is
\* raised, on the call-tool request handler and on callTool alike.
C13_UnknownToolReturnsText ==
  \A r \in Slots :
    (/\ req[r].surface \in {"tool", "facade", "callTool"}
     /\ req[r].name \notin Operations
     /\ req[r].pc = "done") =>
      /\ req[r].resp.shape # "raised"
      /\ req[r].resp = UnknownToolBlock(req[r].name)


\* C14: reading a resource whose URI is not one of the four listed URIs
\* fails the call, an error naming the unknown resource being raised, and no
\* handler runs and no outbound call is made for it.
C14_UnknownResourceRaises ==
  \A r \in Slots :
    (req[r].surface = "resource" /\ req[r].name \notin ResourceUris) =>
      /\ req[r].calls = <<>>
      /\ ~req[r].handled
      /\ req[r].pc \in {"dispatch", "done"}
      /\ req[r].pc = "done" =>
           /\ req[r].resp.shape = "raised"
           /\ req[r].resp.body.message.text = "Unknown resource"

C14_Witness ==
  \E r \in Slots :
    /\ req[r].surface = "resource"
    /\ req[r].name = UnknownUri
    /\ req[r].pc = "done"
    /\ req[r].resp.shape = "raised"
    /\ req[r].calls = <<>>


\* every outbound call of the request has settled with data
AllCallsSucceeded(rq) ==
  /\ Len(rq.settled) = Len(rq.calls)
  /\ \A i \in 1..Len(rq.settled) : CallResult(rq.settled[i]).ok

\* C15: no partial result is returned.  An answered operation request
\* holds either a success envelope with the upstream data, all its calls
\* having succeeded, or a failure without any data, never both; a resource
\* read returns contents only when every call it made succeeded, and the
\* market status resource returns no contents when either of its two calls
\* failed.
C15_NoPartialResult ==
  \A r \in Slots :
    (req[r].pc = "done" /\ req[r].handled) =>
      LET rq == req[r]
          body == rq.resp.body
      IN /\ rq.op \in Operations =>
              /\ ~("data" \in DOMAIN body /\ "error" \in DOMAIN body)
              /\ "data" \in DOMAIN body =>
                   /\ IsSuccessEnvelope(body)
                   /\ rq.calls # <<>>
                   /\ AllCallsSucceeded(rq)
                   /\ body.data = rq.upstream.body
              /\ "data" \notin DOMAIN body => "error" \in DOMAIN body
         /\ rq.surface = "resource" =>
              /\ rq.resp.shape \in {"contents", "raised"}
              /\ rq.resp.shape = "contents" => AllCallsSucceeded(rq)
              /\ rq.resp.shape = "raised" => DOMAIN body = {"message"}
              /\ (rq.op = MarketStatusUri /\ rq.resp.shape = "contents") =>
                   /\ Len(rq.settled) = 2
                   /\ body.text.topCoins = rq.settled[2].body
                   /\ body.text.trendingCount = TrendingCount(rq.settled[1].body)

C15_Witness ==
  \E r \in Slots :
    /\ req[r].pc = "done"
    /\ req[r].op = MarketStatusUri
    /\ Len(req[r].settled) = 2
    /\ CallResult(req[r].settled[1]).ok
    /\ ~CallResult(req[r].settled[2]).ok
    /\ req[r].resp.shape = "raised"


\* C16: on success of price lookup and of token by address, with the
\* required inputs present, the parameters echoed in the envelope are
\* exactly the query entries sent upstream, plus chainId and tokenAddress
\* for token by address: every echoed key was sent, and every sent key is
\* echoed with the value sent.
C16_EchoEqualsSentQuery ==
  \A r \in Slots :
    (/\ req[r].pc = "done"
     /\ req[r].op \in {"get_simple_price", "get_token_price_by_address"}
     /\ RequiredPresent(req[r])
     /\ IsSuccessEnvelope(req[r].resp.body)) =>
      LET echoed == req[r].resp.body.parameters
          sent == req[r].calls[1].query
          ids == IF req[r].op = "get_token_price_by_address" THEN TokenRequired ELSE {}
      IN /\ ids \subseteq DOMAIN echoed
         /\ DOMAIN echoed \ ids = DOMAIN sent
         /\ \A k \in DOMAIN sent : ToStr(echoed[k]) = sent[k]


\* C17: a token-by-address call with both identifiers given and no optional
\* parameter supplied calls the upstream path /coins/{chainId}/contract/
\* {tokenAddress} made of exactly the given chain identifier and address,
\* and the URL called has no query string at all.
C17_TokenPathWithoutQuery ==
  \A r \in Slots :
    (/\ req[r].handled
     /\ req[r].op = "get_token_price_by_address"
     /\ req[r].calls # <<>>
     /\ RequiredPresent(req[r])
     /\ \A k \in TokenOptional : Get(InputOf(req[r]), k) = Undef) =>
      /\ req[r].calls[1].path =
           <<"coins", ToStr(Get(InputOf(req[r]), "chainId")),
             "contract", ToStr(Get(InputOf(req[r]), "tokenAddress"))>>
      /\ req[r].calls[1].search = <<>>
      /\ DOMAIN req[r].calls[1].query = {}


\* the named arguments a caller gave: the keys whose value is not undefined
NamedArguments(a) == [k \in {j \in DOMAIN a : a[j] # Undef} |-> a[k]]

\* the parameters the tool handler of an operation echoes for given inputs
ToolEcho(op, in) ==
  CASE op = "get_simple_price" -> ToolPriceParams(in)
    [] op = "get_token_price_by_address" ->
         Merge([chainId |-> Get(in, "chainId"), tokenAddress |-> Get(in, "tokenAddress")],
               TokenParams(in))
    [] OTHER -> EmptyMap

\* C18: the facade adds no behaviour.  A ToolController method dispatches
\* one of the four tool names, makes the outbound call and returns the
\* answer that the protocol tool dispatch makes and returns for that name
\* with the same named arguments, and an optional argument the caller left
\* undefined is not in the query sent upstream.
C18_FacadeAddsNothing ==
  \A r \in Slots :
    req[r].surface = "facade" =>
      LET rq == req[r]
          named == NamedArguments(rq.given)
      IN /\ rq.name \in Operations
         /\ rq.handled =>
              /\ rq.op = rq.name
              /\ rq.calls = ToolCalls(rq.name, named)
              /\ \A k \in OptionalKeys(rq.name) :
                   Get(rq.given, k) = Undef => k \notin DOMAIN rq.calls[1].query
         /\ rq.pc = "done" =>
              rq.resp = ToolRespond(rq.name, ToolEcho(rq.name, named),
                                    CallResult(rq.upstream))

C18_Witness ==
  \E r \in Slots :
    /\ req[r].surface = "facade"
    /\ req[r].name = "get_simple_price"
    /\ Get(req[r].given, "ids") = Str("bitcoin")
    /\ Get(req[r].given, "include_market_cap") = Bool(TRUE)
    /\ Get(req[r].given, "precision") = Undef
    /\ req[r].pc = "done"
    /\ IsSuccessEnvelope(req[r].resp.body)
    /\ DOMAIN req[r].calls[1].query = {"ids", "vs_currencies", "include_market_cap"}


OwnEcho(rq) ==
  IF rq.surface = "http" /\ rq.op = "get_simple_price"
    THEN HttpPriceParams(rq.args)
    ELSE ToolEcho(rq.op, InputOf(rq))

\* the outbound calls and the answer of a request follow from its own
\* inputs and from the outcomes of its own calls
OwnInputsDecide(rq) ==
  /\ rq.settled # <<>> => rq.upstream = rq.settled[Len(rq.settled)]
  /\ (rq.handled /\ rq.op \in Operations /\ rq.calls # <<>>) =>
       /\ rq.calls = IF rq.surface = "http" THEN HttpCalls(rq.op, InputOf(rq))
                                            ELSE ToolCalls(rq.op, InputOf(rq))
       /\ rq.pc = "done" =>
            rq.resp = IF rq.surface = "http"
                        THEN HttpRespond(rq.op, OwnEcho(rq), CallResult(rq.upstream))
                        ELSE ToolRespond(rq.op, OwnEcho(rq), CallResult(rq.upstream))
  /\ (rq.surface = "resource" /\ rq.pc = "done" /\ rq.resp.shape = "contents"
        /\ rq.calls # <<>>) =>
       rq.resp.body.text =
         IF rq.op = MarketStatusUri
           THEN MarketStatusText(rq.settled[1].body, rq.settled[2].body)
           ELSE [data |-> rq.settled[1].body]

\* C20: with two requests in flight, their steps interleaved in every order
\* at their awaits, the calls and the answer of each request are those that
\* its own inputs and its own upstream outcomes give (the parameters echoed
\* and the data are its own), and a step taken for one request changes
\* nothing of the other.
C20_RequestsIsolated ==
  /\ [](\A r \in DOMAIN req : OwnInputsDecide(req[r]))
  /\ [][\A r \in DOMAIN req :
          req'[r] # req[r] => \A q \in DOMAIN req \ {r} : req'[q] = req[q]]_vars

C20_Witness ==
  /\ req["r1"].pc = "done"
  /\ req["r1"].surface = "http"
  /\ req["r1"].op = "get_simple_price"
  /\ req["r1"].resp.status = 200
  /\ req["r1"].resp.body.parameters.ids = Str("bitcoin")
  /\ req["r1"].resp.body.data = "D1"
  /\ req["r2"].pc = "done"
  /\ req["r2"].surface = "tool"
  /\ req["r2"].op = "get_simple_price"
  /\ IsSuccessEnvelope(req["r2"].resp.body)
  /\ req["r2"].resp.body.parameters.ids = Str("ethereum")
  /\ req["r2"].resp.body.data = "D2"


\* C21: when the upstream call of one request never completes, every other
\* request whose own call completes is still answered in the end; the
\* request whose call hangs stays suspended and unanswered for ever, no
\* timeout or cancellation ending its wait.
C21_HungCallBlocksOnlyItsRequest ==
  /\ \A r \in ConcSlots :
       (req[r].pc \in {"pipeline", "dispatch", "awaiting"})
         ~> (req[r].pc = "done" \/ req[r].hung)
  /\ [](\A r \in ConcSlots :
          req[r].hung => (req[r].pc = "awaiting" /\ req[r].resp = NoResp))
  /\ [][\A r \in ConcSlots : req[r].hung => req'[r] = req[r]]_vars

C21_Witness ==
  /\ req["r1"].hung
  /\ req["r1"].pc = "awaiting"
  /\ req["r2"].pc = "done"
  /\ req["r2"].handled
  /\ req["r2"].calls # <<>>
  /\ IsSuccessEnvelope(req["r2"].resp.body)


\* the names of a declared list, in its order
NamesOf(list) == [i \in 1..Len(list) |-> list[i].name]

\* the set of the entries of a sequence
Range(seq) == {seq[i] : i \in 1..Len(seq)}

\* C22: the discovery metadata agrees across its declarations.  The list
\* of the list-tools request handler is the list of getTools(), and so for
\* prompts and for resources; the capability names of GET / are the names
\* of those lists; and every listed tool name, prompt name and resource URI
\* is a case of its dispatch switch.
C22_DiscoveryConsistent ==
  /\ \A r \in Slots :
       (req[r].surface = "discovery" /\ req[r].pc = "done") =>
         LET items == req[r].resp.body.items
         IN /\ req[r].name \in {"tools/list", "getTools"} =>
                 /\ items = ListToolsDeclared /\ items = GetToolsDeclared
                 /\ Range(NamesOf(items)) \subseteq Operations
            /\ req[r].name \in {"prompts/list", "getPrompts"} =>
                 /\ items = ListPromptsDeclared /\ items = GetPromptsDeclared
                 /\ Range(NamesOf(items)) \subseteq PromptNames
            /\ req[r].name \in {"resources/list", "getResources"} =>
                 /\ items = ListResourcesDeclared /\ items = GetResourcesDeclared
                 /\ Range(NamesOf(items)) \subseteq ResourceUris
  /\ \A r \in Slots :
       (req[r].op = "root" /\ req[r].pc = "done") =>
         /\ req[r].resp.body.capabilities.tools = NamesOf(ListToolsDeclared)
         /\ req[r].resp.body.capabilities.tools = NamesOf(GetToolsDeclared)
         /\ req[r].resp.body.capabilities.prompts = NamesOf(ListPromptsDeclared)
         /\ req[r].resp.body.capabilities.prompts = NamesOf(GetPromptsDeclared)
         /\ req[r].resp.body.capabilities.resources = NamesOf(ListResourcesDeclared)
         /\ req[r].resp.body.capabilities.resources = NamesOf(GetResourcesDeclared)

C22_Witness ==
  \E r \in Slots :
    /\ req[r].surface = "discovery"
    /\ req[r].name = "getTools"
    /\ req[r].pc = "done"
    /\ Len(req[r].resp.body.items) = 4


\* C23: trending and new listings take no inputs.  Whatever arguments or
\* query parameters the caller supplies, on every surface, the one outbound
\* call is to the fixed path /search/trending or /coins/list/new without a
\* query string, and the answer is the one the upstream outcome alone
\* gives.
C23_BareCallsIgnoreInputs ==
  \A r \in Slots :
    (req[r].handled /\ req[r].op \in {"get_trending_coins", "get_new_coins"}) =>
      /\ req[r].calls =
           <<[path |-> Endpoint(req[r].op), search |-> <<>>, query |-> [k \in {} |-> ""]]>>
      /\ req[r].pc = "done" =>
           req[r].resp = IF req[r].surface = "http"
                           THEN HttpRespond(req[r].op, EmptyMap, CallResult(req[r].upstream))
                           ELSE ToolRespond(req[r].op, EmptyMap, CallResult(req[r].upstream))

C23_Witness ==
  \E r \in Slots :
    /\ req[r].surface = "http"
    /\ req[r].op = "get_new_coins"
    /\ req[r].args = [ids |-> Str("bitcoin")]
    /\ req[r].pc = "done"
    /\ req[r].resp.status = 200
    /\ DOMAIN req[r].calls[1].query = {}


\* C24: of the four resources, a read of coingecko://api/info makes no
\* upstream call and always returns the same static text; a read of each of
\* the other three returns contents exactly when all of its upstream calls
\* succeeded, and otherwise raises an error whose message names the
\* resource.
C24_ResourcesSucceedWithCalls ==
  \A r \in Slots :
    (req[r].pc = "done" /\ req[r].surface = "resource" /\ req[r].name \in ResourceUris) =>
      LET rq == req[r]
      IN /\ rq.op = rq.name
         /\ rq.op = ApiInfoUri =>
              /\ rq.calls = <<>>
              /\ rq.resp = Contents(ApiInfoUri, [document |-> "CoinGecko API Information"])
         /\ rq.op # ApiInfoUri =>
              /\ rq.calls # <<>>
              /\ rq.resp.shape = "contents" <=> AllCallsSucceeded(rq)
              /\ rq.resp.shape # "contents" =>
                   /\ rq.resp.shape = "raised"
                   /\ rq.resp.body.message.text = ResourceFailure(rq.op)


\* C25: in a read of the market status resource the price call is issued
\* only after the trending call has succeeded, never before it and never
\* when it failed, and on success trendingCount is the number of entries of
\* the coins list of the trending body, or 0 when that list is absent or
\* empty.
C25_PriceCallFollowsTrending ==
  \A r \in Slots :
    (req[r].surface = "resource" /\ req[r].op = MarketStatusUri) =>
      LET rq == req[r]
          priceCall == UpstreamRequest(Endpoint("get_simple_price"), MarketStatusParams)
          trendingCall == UpstreamRequest(Endpoint("get_trending_coins"), NoParams)
      IN /\ rq.calls # <<>> => rq.calls[1] = trendingCall
         /\ \A i \in 1..Len(rq.calls) :
              rq.calls[i] = priceCall =>
                /\ i = 2
                /\ Len(rq.settled) >= 1
                /\ CallResult(rq.settled[1]).ok
         /\ (rq.settled # <<>> /\ ~CallResult(rq.settled[1]).ok) =>
              /\ Len(rq.calls) = 1
              /\ rq.pc = "done"
         /\ (rq.pc = "done" /\ rq.resp.shape = "contents") =>
              LET data == rq.settled[1].body
              IN rq.resp.body.text.trendingCount =
                   IF HasCoins(data) THEN Len(Coins(data)) ELSE 0

C25_Witness ==
  \E r \in Slots :
    /\ req[r].op = MarketStatusUri
    /\ req[r].pc = "done"
    /\ req[r].resp.shape = "contents"
    /\ req[r].settled[1].body = "D1"
    /\ req[r].resp.body.text.trendingCount = 3
    /\ Len(req[r].calls) = 2


C27_ReportedGateMatchesInstalled ==
  \A r \in Slots :
    (req[r].pc = "done" /\ req[r].surface = "http" /\ req[r].op \in {"root", "info"}) =>
      /\ req[r].resp.body.paymentEnabled <=> GateEnabled
      /\ ~req[r].resp.body.pricing.isNull <=> GateEnabled
      /\ GateEnabled <=> PaymentRouteMatches("GET", CoingeckoMount \o RoutePattern("get_simple_price"))
                           /\ stack[1] = "paymentMiddleware"

C27_Witness ==
  /\ GateEnabled
  /\ \E r \in Slots :
       /\ req[r].pc = "done"
       /\ req[r].op = "root"
       /\ req[r].resp.body.paymentEnabled
       /\ ~req[r].resp.body.pricing.isNull


\* C28: every tool endpoint path GET / advertises, under endpoints.tools
\* and under examples, is a path the server routes to the handler of the
\* operation it is advertised for: the advertised pattern is the mounted
\* route's, and a request sent to an advertised path is served by that
\* operation's handler.
C28_AdvertisedPathsAreRouted ==
  \A r \in Slots :
    /\ (req[r].pc = "done" /\ req[r].surface = "http" /\ req[r].op = "root") =>
         \A op \in Operations :
           /\ req[r].resp.body.endpoints[op] = CoingeckoMount \o RoutePattern(op)
           /\ RoutedOperation(req[r].resp.body.examples[op]) = op
    /\ \A op \in Operations :
         (/\ req[r].surface = "http"
          /\ MatchPattern(AdvertisedEndpoints[op], req[r].path)
          /\ req[r].pc = "done"
          /\ req[r].gate # "rejected") =>
            (req[r].handled /\ req[r].op = op)


\* the required flag the prompt list declares for an argument of a prompt
DeclaredRequired(name, arg) ==
  \E i \in 1..Len(ListPromptsDeclared) :
    /\ ListPromptsDeclared[i].name = name
    /\ \E j \in 1..Len(ListPromptsDeclared[i].arguments) :
         /\ ListPromptsDeclared[i].arguments[j].name = arg
         /\ ListPromptsDeclared[i].arguments[j].required

\* C29: get-prompt with an unknown name fails; token_research fails when
\* address is absent or empty and otherwise succeeds, with chain defaulting
\* to ethereum when absent although chain is declared required;
\* crypto_price_check always succeeds, with tokens and currencies defaulting
\* when absent although tokens is declared required; market_analysis
\* succeeds; no prompt makes an upstream call, and every tool name a prompt
\* text mentions is one of the four listed tools.
C29_PromptsAnswer ==
  /\ DeclaredRequired("token_research", "chain")
  /\ DeclaredRequired("crypto_price_check", "tokens")
  /\ \A r \in Slots :
       req[r].surface = "prompt" =>
         LET rq == req[r]
             absent(k) == Get(rq.args, k) \in {Undef, EmptyStr}
         IN /\ rq.calls = <<>>
            /\ rq.pc \in {"dispatch", "done"}
            /\ rq.pc = "done" =>
                 /\ rq.name \notin PromptNames =>
                      (rq.resp.shape = "raised" /\ rq.resp.body.message.text = "Unknown prompt")
                 /\ rq.name = "token_research" =>
                      IF absent("address")
                        THEN rq.resp.shape = "raised"
                        ELSE /\ rq.resp.shape = "messages"
                             /\ rq.resp.body.text.address = ToStr(Get(rq.args, "address"))
                             /\ rq.resp.body.text.chain =
                                  IF absent("chain") THEN "ethereum"
                                  ELSE ToStr(Get(rq.args, "chain"))
                 /\ rq.name = "crypto_price_check" =>
                      /\ rq.resp.shape = "messages"
                      /\ rq.resp.body.text.tokens =
                           IF absent("tokens") THEN "bitcoin,ethereum,solana"
                           ELSE ToStr(Get(rq.args, "tokens"))
                      /\ rq.resp.body.text.currencies =
                           IF absent("currencies") THEN "usd,eur"
                           ELSE ToStr(Get(rq.args, "currencies"))
                 /\ rq.name = "market_analysis" => rq.resp.shape = "messages"
                 /\ rq.resp.shape = "messages" =>
                      rq.resp.body.text.tools \subseteq Range(NamesOf(ListToolsDeclared))

C29_Witness ==
  \E r \in Slots :
    /\ req[r].surface = "prompt"
    /\ req[r].name = "token_research"
    /\ req[r].args = [chain |-> Undef, address |-> Str("solana")]
    /\ req[r].pc = "done"
    /\ req[r].resp.shape = "messages"
    /\ req[r].resp.body.text.chain = "ethereum"


\* the HTTP surface alone: the requests of the Express application
NextHttp ==
  \E r \in Slots :
    \/ ReceiveHttp(r)
    \/ ReceiveInfo(r)
    \/ PaymentMiddleware(r)
    \/ RouteRoot(r)
    \/ RouteHealth(r)
    \/ RouteInfo(r)
    \/ HealthRoutesPass(r)
    \/ RouteSimplePrice(r)
    \/ RouteTrending(r)
    \/ RouteNewCoins(r)
    \/ RouteTokenByAddress(r)
    \/ RouteNoMatch(r)
    \/ UpstreamSettles(r)

\* every outbound call of a request in flight settles: fetch resolves or
\* rejects
SpecSettling ==
  Init /\ [][NextHttp]_vars /\ \A r \in Slots : WF_vars(UpstreamSettles(r))

\* C30: every HTTP operation request that reaches its handler is answered
\* exactly once, provided its upstream call completes or fails: the handler
\* never sends a second response (a 400 followed by a 200 or a 500), it has
\* sent its one response when it has returned, and it does return.
C30_HttpAnsweredOnce ==
  /\ [](\A r \in Slots :
          (req[r].surface = "http" /\ req[r].handled) =>
            /\ req[r].sent <= 1
            /\ req[r].pc \in {"awaiting", "done"}
            /\ req[r].pc = "done" <=> req[r].sent = 1
            /\ req[r].sent = 1 => req[r].resp.status \in {200, 400, 500})
  /\ \A r \in Slots :
       (req[r].surface = "http" /\ req[r].handled)
         ~> (req[r].pc = "done" /\ req[r].sent = 1)

C30_Witness ==
  \E r \in Slots :
    /\ req[r].surface = "http"
    /\ req[r].op = "get_simple_price"
    /\ req[r].handled
    /\ req[r].calls = <<>>
    /\ req[r].pc = "done"
    /\ req[r].sent = 1
    /\ req[r].resp.status = 400

====
